---- MODULE Spec2Model ----
(***************************************************************************)
(* Model of the "shaded" image/shader editor: the WebGL ShaderRenderer     *)
(* (renderer.js), the canvas MaskEditor (mask-editor.js) and the app glue  *)
(* (app.js) that wires them together.                                      *)
(*                                                                         *)
(* Conventions.  A raster is a record [w, h, px] whose px is a row-major   *)
(* sequence (pixel position p = x + y*w is px[p + 1]).  The mask canvas    *)
(* additionally carries its (uniform) alpha a.  Shader source text is a    *)
(* sequence of tokens; white space between tokens is not modelled (every   *)
(* token boundary of the sanitizer's patterns admits white space).  The    *)
(* JavaScript null of a text or a raster is the empty text / raster.       *)
(***************************************************************************)
EXTENDS Integers, Sequences, FiniteSets, TLC

(***************************************************************************)
(* Bounds of the model.                                                    *)
(***************************************************************************)
\* How many /api/generate-mask requests may be in flight at once.
MaxInflight == 1
\* How many generateShader calls may be awaiting an answer at once.
MaxGenerating == 2

\* How many shaders may be saved to the library in one behaviour.
MaxSaved == 2

\* How many animation-frame callbacks may be pending at once.
MaxCallbacks == 2

\* How many brush / eraser stamps may be painted before the pointer events
\* of a behaviour stop painting.
MaxStamps == 2

(***************************************************************************)
(* Shader source text and ShaderRenderer._sanitizeShader.                  *)
(***************************************************************************)
\* \w+ tokens: identifiers, keywords and digit runs.
WordTokens ==
  {"abs", "sign", "min", "max", "float", "i", "n", "0", "7", "mix", "img", "out"}

\* The operators the min/max pattern accepts between its two words: [+\-*/].
ArithTokens == {"+", "-", "*", "/"}

NullText == << >>

\* /\b(abs|sign)\s*\(\s*(\w+\s*-\s*\w+)\s*\)/ matched at token k.
MatchAbsAt(s, k) ==
  /\ k + 5 <= Len(s)
  /\ s[k] \in {"abs", "sign"}
  /\ s[k + 1] = "("
  /\ s[k + 2] \in WordTokens
  /\ s[k + 3] = "-"
  /\ s[k + 4] \in WordTokens
  /\ s[k + 5] = ")"

\* /\b(min|max)\s*\(\s*(\w+\s*[+\-*/]\s*\w+)\s*,\s*(\w+)\s*\)/ matched at token k.
MatchMinMaxAt(s, k) ==
  /\ k + 7 <= Len(s)
  /\ s[k] \in {"min", "max"}
  /\ s[k + 1] = "("
  /\ s[k + 2] \in WordTokens
  /\ s[k + 3] \in ArithTokens
  /\ s[k + 4] \in WordTokens
  /\ s[k + 5] = ","
  /\ s[k + 6] \in WordTokens
  /\ s[k + 7] = ")"

\* source.replace(/.../g, fn(float(args))): left to right, non-overlapping.
RECURSIVE ReplaceAbs(_, _)
ReplaceAbs(s, k) ==
  IF k > Len(s) THEN << >>
  ELSE IF MatchAbsAt(s, k)
    THEN <<s[k], "(", "float", "(", s[k + 2], "-", s[k + 4], ")", ")">>
           \o ReplaceAbs(s, k + 6)
    ELSE <<s[k]>> \o ReplaceAbs(s, k + 1)

\* source.replace(/.../g, fn(float(arg1), float(arg2))).
RECURSIVE ReplaceMinMax(_, _)
ReplaceMinMax(s, k) ==
  IF k > Len(s) THEN << >>
  ELSE IF MatchMinMaxAt(s, k)
    THEN <<s[k], "(", "float", "(", s[k + 2], s[k + 3], s[k + 4], ")", ",",
           "float", "(", s[k + 6], ")", ")">>
           \o ReplaceMinMax(s, k + 8)
    ELSE <<s[k]>> \o ReplaceMinMax(s, k + 1)

\* The abs/sign rule with a pattern that also accepts an argument already
\* wrapped in float( ), and wraps it again.
RECURSIVE ReplaceAbsAgain(_, _)
ReplaceAbsAgain(s, k) ==
  IF k > Len(s) THEN << >>
  ELSE IF MatchAbsAt(s, k)
    THEN <<s[k], "(", "float", "(", s[k + 2], "-", s[k + 4], ")", ")">>
           \o ReplaceAbsAgain(s, k + 6)
  ELSE IF /\ k + 3 <= Len(s)
          /\ s[k] \in {"abs", "sign"}
          /\ s[k + 1] = "("
          /\ s[k + 2] = "float"
          /\ s[k + 3] = "("
    THEN <<s[k], "(", "float", "(", "float", "(">> \o ReplaceAbsAgain(s, k + 4) \o <<")">>
    ELSE <<s[k]>> \o ReplaceAbsAgain(s, k + 1)

\* _sanitizeShader with the re-wrapping abs/sign rule (mutant of SanitizeShader).
SanitizeShaderRewrapping(source) == ReplaceMinMax(ReplaceAbsAgain(source, 1), 1)

SanitizeShader(source) == ReplaceMinMax(ReplaceAbs(source, 1), 1)

\* The fragment sources the collaborators hand to the renderer.  The last
\* token stands for the statement that writes gl_FragColor:
\*   "mix"  gl_FragColor = vec4(mix(original.rgb, effected, mask * u_intensity), original.a)
\*   "img"  gl_FragColor = texture2D(u_image, v_texCoord)
\*   "out"  gl_FragColor = vec4(vec3(value), 1.0), no mask blend (a mask heuristic)
\* glow-edges: "glow += abs(sl - sl2);" and the closing mix.
GlowEdgesSrc == <<"abs", "(", "i", "-", "n", ")", ";", "mix">>

\* A generated selection-heuristic shader: calls max on a loop-index
\* expression and writes the selection to red.
MaskHeuristicSrc == <<"max", "(", "i", "+", "n", ",", "n", ")", ";", "out">>

PassthroughShader == <<"img">>

Sources == {GlowEdgesSrc, MaskHeuristicSrc}


(***************************************************************************)
(* Rasters, textures and the GL compiler.                                  *)
(***************************************************************************)
NoRaster == [w |-> 0, h |-> 0, px |-> << >>]

UniformPx(n, v) == [k \in 1..n |-> v]

\* The source pixel position a destination pixel (x, y) of a dw x dh raster
\* takes from an sw x sh raster stretched over it (pixel centres, nearest).
SourcePos(x, y, dw, dh, sw, sh) ==
  (((2 * x + 1) * sw) \div (2 * dw)) + (((2 * y + 1) * sh) \div (2 * dh)) * sw

\* ctx.drawImage(src, 0, 0, dw, dh) of an opaque raster: the stretched pixels.
Stretch(src, dw, dh) ==
  [k \in 1..(dw * dh) |->
     src.px[SourcePos((k - 1) % dw, (k - 1) \div dw, dw, dh, src.w, src.h) + 1]]

\* texture2D(tex, v_texCoord).r at canvas pixel k of a cw x ch canvas.
TexSample(tex, k, cw, ch) ==
  tex.px[SourcePos((k - 1) % cw, (k - 1) \div cw, cw, ch, tex.w, tex.h) + 1]

\* Images the user can load: natural size and RGB pixels.
Bright == <<220, 180, 40>>
Dark == <<20, 20, 60>>
Dim == <<60, 50, 60>>

StripImage == [w |-> 3, h |-> 1, px |-> <<Dark, Bright, Dark>>]

WideImage == [w |-> 2, h |-> 2, px |-> <<Dark, Bright, Bright, Bright>>]

\* One dark corner, two dim neighbours of it, one bright cell.
ToneImage == [w |-> 2, h |-> 2, px |-> <<Dark, Dim, Dim, Bright>>]

Images == {WideImage}

\* The verdicts of gl.compileShader / gl.linkProgram on a fragment source.
Verdicts == {"ok", "compile", "link"}

\* Every text the renderer can hand to the compiler besides the passthrough
\* shader: a sanitized source, or a saved sanitized text sanitized again.
CompilerInputs ==
  {SanitizeShader(s) : s \in Sources}
    \cup {SanitizeShader(SanitizeShader(s)) : s \in Sources}

NoError == [kind |-> "none", log |-> NullText]

\* gl.getShaderInfoLog / gl.getProgramInfoLog: the driver's text about src.
InfoLog(src) == <<"ERROR">> \o src

(***************************************************************************)
(* State.                                                                  *)
(***************************************************************************)
VARIABLES
  renderer,       \* the ShaderRenderer object (renderer.js constructor)
  maskEditor,     \* the MaskEditor object (mask-editor.js constructor)
  app,            \* the module-level state of app.js
  glsl,           \* the GL driver: verdict on every compiler input
  premultiplied,  \* whether the 2D canvas stores premultiplied pixels
  outcome,        \* history: the last renderer / editor call and what it threw
  stamps          \* history: how many stamps pointer events have painted so far

vars == <<renderer, maskEditor, app, glsl, premultiplied, outcome, stamps>>

(***************************************************************************)
(* ShaderRenderer.                                                         *)
(***************************************************************************)
\* The drawing buffer after the canvas was (re)sized: cleared.
BlankFrame(w, h) ==
  [w |-> w, h |-> h, px |-> UniformPx(w * h, <<0, 0, 0>>), by |-> NullText]

\* The 300x150 default canvas, at the scale of the model's images.
DefaultCanvas == [w |-> 2, h |-> 1]

NewRenderer ==
  [ program           |-> NullText,
    imageTexture      |-> NoRaster,
    maskTexture       |-> [w |-> 1, h |-> 1, px |-> <<255>>],
    animating         |-> FALSE,
    intensity         |-> 100,
    frameId           |-> "null",
    currentShaderCode |-> NullText,
    imageLoaded       |-> FALSE,
    gl                |-> [programs |-> 0, undeleted |-> 0],
    canvas            |-> DefaultCanvas,
    frame             |-> BlankFrame(DefaultCanvas.w, DefaultCanvas.h) ]

\* GLSL mix(original, effected, mask * u_intensity) on one 8-bit channel;
\* m is the mask sample in 0..255 and i the intensity in percent.
Mix(o, e, m, i) ==
  (o * (25500 - m * i) + e * (m * i) + 12750) \div 25500

\* The "effected" colour an effect shader computes for an original colour.
Effected(c) == <<255 - c[1], 255 - c[2], 255 - c[3]>>

\* The selection a mask-heuristic shader computes for an original colour.
Heuristic(c) == IF c[1] >= 128 THEN <<255, 255, 255>> ELSE <<0, 0, 0>>

\* What the program's gl_FragColor statement writes at one pixel.
FragColor(prog, c, m, i) ==
  CASE prog[Len(prog)] = "img" -> c
    [] prog[Len(prog)] = "mix" ->
         <<Mix(c[1], Effected(c)[1], m, i), Mix(c[2], Effected(c)[2], m, i),
           Mix(c[3], Effected(c)[3], m, i)>>
    [] OTHER -> Heuristic(c)

\* render() that feeds u_intensity a constant 1.0 (mutant of Render).
RenderFullIntensity(r) ==
  IF r.program = NullText \/ ~r.imageLoaded THEN r
  ELSE [r EXCEPT !.frame =
          [ w |-> r.canvas.w, h |-> r.canvas.h, by |-> r.program,
            px |-> [k \in 1..(r.canvas.w * r.canvas.h) |->
                      FragColor(r.program,
                                TexSample(r.imageTexture, k, r.canvas.w, r.canvas.h),
                                TexSample(r.maskTexture, k, r.canvas.w, r.canvas.h),
                                100)] ]]

Render(r) ==
  IF r.program = NullText \/ ~r.imageLoaded THEN r
  ELSE [r EXCEPT !.frame =
          [ w |-> r.canvas.w, h |-> r.canvas.h, by |-> r.program,
            px |-> [k \in 1..(r.canvas.w * r.canvas.h) |->
                      FragColor(r.program,
                                TexSample(r.imageTexture, k, r.canvas.w, r.canvas.h),
                                TexSample(r.maskTexture, k, r.canvas.w, r.canvas.h),
                                r.intensity)] ]]

\* _compileShader + _createProgram on a fragment source: the error thrown.
CreateProgram(g, fragmentSrc) ==
  LET v == IF fragmentSrc = PassthroughShader THEN "ok"
           ELSE IF fragmentSrc \in DOMAIN g THEN g[fragmentSrc]
           ELSE "compile"
  IN IF v = "ok" THEN NoError ELSE [kind |-> v, log |-> InfoLog(fragmentSrc)]

\* The shader objects _createProgram has created and not deleted when it
\* returns or throws: the vertex shader, when the fragment shader fails to
\* compile (_compileShader deletes only the shader it compiled).
Undeleted(err) == IF err.kind = "compile" THEN 1 ELSE 0

\* setShader(fragmentSource): result state and the error thrown (if any).
\* gl.programs counts the program objects created and not deleted,
\* gl.undeleted the shader objects this call created and did not delete.
SetShader(r, g, fragmentSource) ==
  LET src == SanitizeShader(fragmentSource)
      err == CreateProgram(g, src)
      released == IF r.program # NullText THEN r.gl.programs - 1 ELSE r.gl.programs
  IN IF err = NoError
       THEN [r |-> Render([r EXCEPT !.program = src, !.currentShaderCode = src,
                                    !.gl = [programs |-> released + 1,
                                            undeleted |-> 0]]),
             err |-> NoError]
       ELSE [r |-> [r EXCEPT !.program = NullText,
                             !.gl = [programs |-> released,
                                     undeleted |-> Undeleted(err)]],
             err |-> err]

\* renderPassthrough().
RenderPassthrough(r, g) ==
  LET s == SetShader(r, g, PassthroughShader)
  IN IF s.err = NoError
       THEN [r |-> [s.r EXCEPT !.currentShaderCode = NullText], err |-> NoError]
       ELSE s

\* gl.readPixels(0, 0, w, h): the drawing buffer, bottom row first.
ReadPixels(r) ==
  [ w |-> r.canvas.w, h |-> r.canvas.h,
    px |-> [k \in 1..(r.canvas.w * r.canvas.h) |->
              r.frame.px[((k - 1) % r.canvas.w)
                         + (r.canvas.h - 1 - ((k - 1) \div r.canvas.w)) * r.canvas.w
                         + 1]] ]

NoPixels == [w |-> 0, h |-> 0, px |-> << >>]

\* renderMaskShader(fragmentSource): result state, error thrown, pixels.
RenderMaskShader(r, g, fragmentSource) ==
  LET savedShaderCode == r.currentShaderCode
      s1 == SetShader(r, g, fragmentSource)
      r2 == Render(s1.r)
      s3 == IF savedShaderCode # NullText
              THEN SetShader(r2, g, savedShaderCode)
              ELSE RenderPassthrough(r2, g)
  IN IF s1.err # NoError THEN [r |-> s1.r, err |-> s1.err, pixels |-> NoPixels]
     ELSE IF s3.err # NoError THEN [r |-> s3.r, err |-> s3.err, pixels |-> NoPixels]
     ELSE [r |-> s3.r, err |-> NoError, pixels |-> ReadPixels(r2)]

\* setImage(image): canvas takes the image's natural size.
SetImage(r, image) ==
  Render([r EXCEPT !.canvas = [w |-> image.w, h |-> image.h],
                   !.frame = BlankFrame(image.w, image.h),
                   !.imageTexture = image,
                   !.imageLoaded = TRUE])

\* gl.texImage2D(..., maskCanvas): the texture made of a mask canvas.
Uploaded(canvas) == [w |-> canvas.w, h |-> canvas.h, px |-> canvas.px]

\* updateMask(maskCanvas): upload the canvas and redraw.
UpdateMask(r, canvas) ==
  Render([r EXCEPT !.maskTexture = Uploaded(canvas)])

\* setIntensity(value).
SetIntensity(r, value) == Render([r EXCEPT !.intensity = value])


\* setAnimating(on): _animate() renders and requests a frame when turned on;
\* turning off cancels the callback this.frameId names, if it is pending.
\* frameId: "null" or "pending" (names a pending callback).  Returns the
\* renderer and the change in the number of pending callbacks.
\* setAnimating(on) that ignores on = false (mutant of SetAnimating).
SetAnimatingOnOnly(r, on) ==
  IF on
    THEN [r |-> Render([r EXCEPT !.animating = TRUE, !.frameId = "pending"]),
          raf |-> 1]
    ELSE [r |-> r, raf |-> 0]

SetAnimating(r, on) ==
  IF on
    THEN [r |-> Render([r EXCEPT !.animating = TRUE, !.frameId = "pending"]),
          raf |-> 1]
    ELSE [r |-> [r EXCEPT !.animating = FALSE, !.frameId = "null"],
          raf |-> IF r.frameId = "pending" THEN -1 ELSE 0]

(***************************************************************************)
(* MaskEditor.                                                             *)
(***************************************************************************)
\* What a 2D canvas keeps of a colour value written with alpha a.
Store(v, a) == IF premultiplied /\ a = 0 THEN 0 ELSE v

\* lastPos = null.
NoPos == [x |-> -1, y |-> -1]

NewMaskEditor ==
  [ canvas          |-> [w |-> DefaultCanvas.w, h |-> DefaultCanvas.h,
                         px |-> UniformPx(DefaultCanvas.w * DefaultCanvas.h, 0),
                         a |-> 0],
    painting        |-> FALSE,
    mode            |-> "brush",
    brushSize       |-> 20,
    softness        |-> 50,
    active          |-> FALSE,
    tolerance       |-> 32,
    growRadius      |-> 2,
    sourceImageData |-> NoRaster,
    lastPos         |-> NoPos ]

\* resize(width, height): white canvas with the previous content stretched
\* over it (a transparent previous canvas leaves the white untouched).
Resize(e, width, height) ==
  [e EXCEPT !.canvas =
     [ w |-> width, h |-> height, a |-> 255,
       px |-> IF e.canvas.a = 255 /\ e.canvas.w > 0 /\ e.canvas.h > 0
                THEN Stretch(e.canvas, width, height)
                ELSE UniformPx(width * height, 255) ]]

\* setSourceImage(imageElement): the image drawn at the mask canvas' size.
SetSourceImage(e, image) ==
  [e EXCEPT !.sourceImageData =
     [w |-> e.canvas.w, h |-> e.canvas.h,
      px |-> Stretch(image, e.canvas.w, e.canvas.h)]]

\* fill() with a half-transparent white fillStyle (mutant of Fill).
FillTranslucent(e) ==
  [e EXCEPT !.canvas.px = [k \in 1..Len(e.canvas.px) |-> (e.canvas.px[k] + 255) \div 2],
            !.canvas.a = 255]

\* fill(): opaque white.
Fill(e) ==
  [e EXCEPT !.canvas.px = UniformPx(e.canvas.w * e.canvas.h, 255), !.canvas.a = 255]

\* clear(): opaque black.
Clear(e) ==
  [e EXCEPT !.canvas.px = UniformPx(e.canvas.w * e.canvas.h, 0), !.canvas.a = 255]

\* invert() that subtracts from 254; the clamped array stores -1 as 0
\* (mutant of Invert).
InvertFrom254(e) ==
  [e EXCEPT !.canvas.px =
     [k \in 1..Len(e.canvas.px) |->
        Store(IF e.canvas.px[k] > 254 THEN 0 ELSE 254 - e.canvas.px[k], e.canvas.a)]]

\* invert(): 255 - v on the colour channels, alpha untouched.
Invert(e) ==
  [e EXCEPT !.canvas.px =
     [k \in 1..Len(e.canvas.px) |-> Store(255 - e.canvas.px[k], e.canvas.a)]]

\* setFromGLPixels(pixels, width, height): rows flipped, red channel taken,
\* written at (0, 0) with alpha 255.
\* setFromImage whose merge counts 127 as selected (mutant of SetFromImage).
SetFromImageFrom127(e, img, additive) ==
  LET incoming == Stretch(img, e.canvas.w, e.canvas.h)
  IN IF additive
       THEN [e EXCEPT !.canvas.px =
               [k \in 1..Len(e.canvas.px) |->
                  IF incoming[k] >= 127 THEN Store(255, e.canvas.a)
                                        ELSE e.canvas.px[k]]]
       ELSE [e EXCEPT !.canvas.px = incoming, !.canvas.a = 255]

\* img.onload of setFromImage(dataUri, additive): the opaque grey image is
\* drawn at the canvas size; additive merges it into the mask through
\* getImageData / putImageData, otherwise it is drawn over a black fill.
SetFromImage(e, img, additive) ==
  LET incoming == Stretch(img, e.canvas.w, e.canvas.h)
  IN IF additive
       THEN [e EXCEPT !.canvas.px =
               [k \in 1..Len(e.canvas.px) |->
                  IF incoming[k] > 127 THEN Store(255, e.canvas.a)
                                       ELSE e.canvas.px[k]]]
       ELSE [e EXCEPT !.canvas.px = incoming, !.canvas.a = 255]

SetFromGLPixels(e, pixels) ==
  [e EXCEPT !.canvas.a = 255,
            !.canvas.px =
     [k \in 1..Len(e.canvas.px) |->
        LET x == (k - 1) % e.canvas.w
            y == (k - 1) \div e.canvas.w
        IN IF x < pixels.w /\ y < pixels.h
             THEN pixels.px[x + (pixels.h - 1 - y) * pixels.w + 1][1]
             ELSE e.canvas.px[k]]]


\* Pointer positions and distances are in quarter pixels.
ISqrt(n) == CHOOSE r \in 0..n : r * r <= n /\ (r + 1) * (r + 1) > n

\* The centre of cell k of a canvas w cells wide.
Centre(k, w) == [x |-> 4 * ((k - 1) % w) + 2, y |-> 4 * ((k - 1) \div w) + 2]

\* The gradient of _paint at a point num / den radii from the stamp's centre
\* (num <= den), as an 8-bit alpha; softness s is in percent.
GradientAlpha(num, den, s) ==
  IF s <= 1 THEN 255
  ELSE IF 100 * num <= (100 - s) * den THEN 255
  ELSE (51000 * (den - num) + s * den) \div (2 * s * den)

\* A stamp with globalCompositeOperation 'copy': the destination is
\* replaced, not painted over (mutant of Composite).
CompositeCopy(old, target, a) == (target * a + 127) \div 255

\* 'source-over' of colour target with alpha a onto an opaque cell.
Composite(old, target, a) == (target * a + old * (255 - a) + 127) \div 255

\* _paint(x, y) with x = p.x / den and y = p.y / den: the filled arc of
\* radius brushSize, in white (brush) or black (eraser).
Paint(e, p, den) ==
  LET radius == 4 * e.brushSize * den
      target == IF e.mode = "brush" THEN 255 ELSE 0
      Reach(k) == LET c == Centre(k, e.canvas.w)
                  IN ISqrt((c.x * den - p.x) * (c.x * den - p.x)
                           + (c.y * den - p.y) * (c.y * den - p.y))
  IN [e EXCEPT !.canvas.px =
        [k \in 1..Len(e.canvas.px) |->
           IF Reach(k) <= radius
             THEN Composite(e.canvas.px[k], target,
                            GradientAlpha(Reach(k), radius, e.softness))
             ELSE e.canvas.px[k]]]

\* Math.floor in the place of Math.ceil (mutant of CeilSteps).
FloorSteps(d2, step) ==
  CHOOSE n \in 0..d2 : n * n * step * step <= d2 /\ (n + 1) * (n + 1) * step * step > d2

\* Math.ceil(dist / step) for dist = sqrt(d2), d2 > 0.
CeilSteps(d2, step) ==
  CHOOSE n \in 1..d2 : n * n * step * step >= d2 /\ (n - 1) * (n - 1) * step * step < d2

\* The loop of the paint handler: stamps i..steps between lastPos and pos.
RECURSIVE PaintBetween(_, _, _, _, _)
PaintBetween(e, last, pos, i, steps) ==
  IF i > steps THEN e
  ELSE PaintBetween(
         Paint(e, [x |-> last.x * steps + (pos.x - last.x) * i,
                   y |-> last.y * steps + (pos.y - last.y) * i], steps),
         last, pos, i + 1, steps)

\* dx * dx + dy * dy of the paint handler.
StrokeDistSq(last, pos) ==
  (pos.x - last.x) * (pos.x - last.x) + (pos.y - last.y) * (pos.y - last.y)

\* step = Math.max(1, brushSize / 4), in quarter pixels.
StrokeStep(e) == IF e.brushSize > 4 THEN e.brushSize ELSE 4

\* How many stamps the paint handler interpolates before the stamp at pos:
\* steps when lastPos is set and dist > step, else none.
StrokeSteps(e, pos) ==
  IF e.lastPos # NoPos /\ StrokeDistSq(e.lastPos, pos) > StrokeStep(e) * StrokeStep(e)
    THEN CeilSteps(StrokeDistSq(e.lastPos, pos), StrokeStep(e))
    ELSE 0

\* The body of the paint handler once it is painting: interpolated stamps
\* when the pointer moved more than a step, then a stamp at pos.
PaintTo(e, pos) ==
  LET between == IF StrokeSteps(e, pos) > 0
                   THEN PaintBetween(e, e.lastPos, pos, 1, StrokeSteps(e, pos))
                   ELSE e
  IN [Paint(between, pos, 1) EXCEPT !.lastPos = pos]

\* Polygons.  A vertex is <<nx, ny>> in quarters of the normalized unit; a
\* loop is a sequence of vertices, null and [] being the empty sequence.
\* poly[i][0] * w, poly[i][1] * h in quarter pixels.
PathPoint(v, w, h) == [x |-> v[1] * w, y |-> v[2] * h]

\* Which side of the edge a -> b the point p lies on (0: on its line).
IsLeft(a, b, p) == (b.x - a.x) * (p.y - a.y) - (p.x - a.x) * (b.y - a.y)

\* How often the closed path of loop winds around p: the edges i.. of the
\* path, closePath joining the last vertex to the first.
RECURSIVE Winding(_, _, _, _, _)
Winding(loop, i, p, w, h) ==
  IF i > Len(loop) THEN 0
  ELSE LET a == PathPoint(loop[i], w, h)
           b == PathPoint(loop[IF i = Len(loop) THEN 1 ELSE i + 1], w, h)
       IN (IF a.y <= p.y /\ p.y < b.y /\ IsLeft(a, b, p) > 0 THEN 1
           ELSE IF b.y <= p.y /\ p.y < a.y /\ IsLeft(a, b, p) < 0 THEN -1
           ELSE 0)
          + Winding(loop, i + 1, p, w, h)

\* ctx.fill() of the path (non-zero rule, anti-aliased): the alpha the fill
\* has at cell k, from the four sample points of the cell the path encloses.
Coverage(loop, k, w, h) ==
  LET x == 4 * ((k - 1) % w)
      y == 4 * ((k - 1) \div w)
      samples == {[x |-> x + dx, y |-> y + dy] : dx \in {1, 3}, dy \in {1, 3}}
      inside == {p \in samples : Winding(loop, 1, p, w, h) # 0}
  IN (255 * Cardinality(inside) + 2) \div 4

\* beginPath ... closePath, fill in white: source-over onto the canvas.
FillLoop(px, loop, w, h) ==
  [k \in 1..Len(px) |-> Composite(px[k], 255, Coverage(loop, k, w, h))]

\* The for loop of setFromPolygons without its guard: a null or empty loop
\* throws at poly[0][0] and ends the call.
RECURSIVE FillPolygonsUnguarded(_, _, _, _, _)
FillPolygonsUnguarded(px, polygons, i, w, h) ==
  IF i > Len(polygons) THEN [px |-> px, err |-> NoError]
  ELSE IF Len(polygons[i]) = 0 THEN [px |-> px, err |-> [kind |-> "TypeError", log |-> NullText]]
  ELSE FillPolygonsUnguarded(FillLoop(px, polygons[i], w, h), polygons, i + 1, w, h)

\* The for loop of setFromPolygons from loop i on.
RECURSIVE FillPolygons(_, _, _, _, _)
FillPolygons(px, polygons, i, w, h) ==
  IF i > Len(polygons) THEN [px |-> px, err |-> NoError]
  ELSE IF Len(polygons[i]) < 3 THEN FillPolygons(px, polygons, i + 1, w, h)
  ELSE FillPolygons(FillLoop(px, polygons[i], w, h), polygons, i + 1, w, h)

\* setFromPolygons that draws without the black fillRect (mutant of
\* SetFromPolygons).
SetFromPolygonsKeeping(e, polygons) ==
  LET filled == FillPolygons(e.canvas.px, polygons, 1, e.canvas.w, e.canvas.h)
  IN [e |-> [e EXCEPT !.canvas.px = filled.px, !.canvas.a = 255], err |-> filled.err]

\* setFromPolygons without the `if (!poly || poly.length < 3) continue`
\* (mutant of SetFromPolygons).
SetFromPolygonsUnguarded(e, polygons) ==
  LET black == UniformPx(e.canvas.w * e.canvas.h, 0)
      filled == FillPolygonsUnguarded(black, polygons, 1, e.canvas.w, e.canvas.h)
  IN [e |-> [e EXCEPT !.canvas.px = filled.px, !.canvas.a = 255], err |-> filled.err]

\* setFromPolygons(polygons) up to onChange: black, then every loop in
\* white.  The method has one parameter: a second argument is dropped.
SetFromPolygons(e, polygons) ==
  LET black == UniformPx(e.canvas.w * e.canvas.h, 0)
      filled == FillPolygons(black, polygons, 1, e.canvas.w, e.canvas.h)
  IN [e |-> [e EXCEPT !.canvas.px = filled.px, !.canvas.a = 255], err |-> filled.err]

\* Where the pointer can be: over the centre of a cell of the canvas.
PointerPositions(canvas) == {Centre(k, canvas.w) : k \in 1..(canvas.w * canvas.h)}

\* Quick select.  Cells are numbered from 0 as in the code: pos = ix + iy * w.
DistSq(c, d) ==
  (c[1] - d[1]) * (c[1] - d[1]) + (c[2] - d[2]) * (c[2] - d[2])
    + (c[3] - d[3]) * (c[3] - d[3])

\* A comparison that leaves out colours exactly at the tolerance (mutant of
\* WithinTolerance).
WithinToleranceStrict(distSq, tol) == distSq < tol

\* The comparison turned around (mutant of WithinTolerance).
WithinToleranceFlipped(distSq, tol) == distSq >= tol

\* distSq <= tol.
WithinTolerance(distSq, tol) == distSq <= tol

\* The neighbours the flood fill looks at, in the order it pushes them.
Neighbors(pos, w, h) ==
  LET px == pos % w
      py == (pos - px) \div w
  IN (IF px > 0 THEN <<pos - 1>> ELSE << >>)
       \o (IF px < w - 1 THEN <<pos + 1>> ELSE << >>)
       \o (IF py > 0 THEN <<pos - w>> ELSE << >>)
       \o (IF py < h - 1 THEN <<pos + w>> ELSE << >>)

\* The for loop over the neighbours: mark and push the unvisited ones.
RECURSIVE PushUnvisited(_, _, _)
PushUnvisited(st, ns, i) ==
  IF i > Len(ns) THEN st
  ELSE IF ns[i] \in st.visited THEN PushUnvisited(st, ns, i + 1)
  ELSE PushUnvisited([st EXCEPT !.visited = @ \cup {ns[i]},
                                !.queue = Append(@, ns[i])], ns, i + 1)

\* A loop body that leaves the loop at the first rejected pixel, dropping
\* the pending ones (mutant of FloodStepAt).
FloodStepAtBreaking(src, seedColor, tol, st, i) ==
  LET pos == st.queue[i]
      taken == [st EXCEPT !.queue = SubSeq(@, 1, i - 1) \o SubSeq(@, i + 1, Len(@))]
  IN IF WithinTolerance(DistSq(src.px[pos + 1], seedColor), tol)
       THEN PushUnvisited([taken EXCEPT !.selected = @ \cup {pos}],
                          Neighbors(pos, src.w, src.h), 1)
       ELSE [taken EXCEPT !.queue = << >>]

\* One iteration of the while loop of the flood fill, taking the pending
\* pixel at place i of the queue (the code pops: i = Len(queue)).
FloodStepAt(src, seedColor, tol, st, i) ==
  LET pos == st.queue[i]
      taken == [st EXCEPT !.queue = SubSeq(@, 1, i - 1) \o SubSeq(@, i + 1, Len(@))]
  IN IF WithinTolerance(DistSq(src.px[pos + 1], seedColor), tol)
       THEN PushUnvisited([taken EXCEPT !.selected = @ \cup {pos}],
                          Neighbors(pos, src.w, src.h), 1)
       ELSE taken

\* The while loop of the flood fill: pop from the end of the queue.
RECURSIVE FloodFill(_, _, _, _)
FloodFill(src, seedColor, tol, st) ==
  IF Len(st.queue) = 0 THEN st.selected
  ELSE FloodFill(src, seedColor, tol,
                 FloodStepAt(src, seedColor, tol, st, Len(st.queue)))

\* The dy / dx loops of the grow pass at cell g = gx + gy * w: the in-bounds
\* cells (gx + dx, gy + dy) with dx, dy in -r..r and dx * dx + dy * dy <= r * r.
Disc(g, w, h, r) ==
  LET gx == g % w
      gy == g \div w
  IN { (gx + d[1]) + (gy + d[2]) * w :
         d \in { d \in (-r..r) \X (-r..r) :
                   /\ d[1] * d[1] + d[2] * d[2] <= r * r
                   /\ gx + d[1] >= 0 /\ gx + d[1] < w
                   /\ gy + d[2] >= 0 /\ gy + d[2] < h } }

\* A grow pass whose loop tests the array it is writing, so that cells it
\* has just grown grow again.
RECURSIVE GrowFromGrown(_, _, _, _, _)
GrowFromGrown(grown, g, w, h, r) ==
  IF g >= w * h THEN grown
  ELSE GrowFromGrown(IF g \in grown THEN grown \cup Disc(g, w, h, r) ELSE grown,
                     g + 1, w, h, r)

\* The grow pass reading what it writes (mutant of Grown).
GrownCascading(selected, w, h, r) ==
  IF r > 0 THEN GrowFromGrown(selected, 0, w, h, r) ELSE selected

\* The gy / gx loops of the grow pass from cell g on: selected is read,
\* grown (a copy of selected) is written.
RECURSIVE GrowFrom(_, _, _, _, _, _)
GrowFrom(selected, grown, g, w, h, r) ==
  IF g >= w * h THEN grown
  ELSE GrowFrom(selected,
                IF g \in selected THEN grown \cup Disc(g, w, h, r) ELSE grown,
                g + 1, w, h, r)

\* The grow pass: selected.set(grown) when growRadius > 0.
Grown(selected, w, h, r) ==
  IF r > 0 THEN GrowFrom(selected, selected, 0, w, h, r) ELSE selected

\* Math.round of a coordinate given in quarter pixels.
RoundQuarter(q) == (q + 2) \div 4

\* The arrays before the while loop, the seed not marked as visited
\* (mutant of FloodStart).
FloodStartUnmarked(seed) == [queue |-> <<seed>>, visited |-> {}, selected |-> {}]

\* The work list, visited and selected arrays before the while loop.
FloodStart(seed) == [queue |-> <<seed>>, visited |-> {seed}, selected |-> {}]

\* The cells the flood fill of _quickSelect selects from seed (ix, iy).
Flooded(e, ix, iy) ==
  LET src == e.sourceImageData
      seed == ix + iy * src.w
  IN FloodFill(src, src.px[seed + 1], e.tolerance * e.tolerance * 3,
               FloodStart(seed))

\* The cells _quickSelect selects from seed (ix, iy): flood fill, then grow.
Selection(e, ix, iy) ==
  Grown(Flooded(e, ix, iy), e.sourceImageData.w, e.sourceImageData.h, e.growRadius)

\* Whether _quickSelect(x, y, .) gets past its two early returns.
QuickSelectRuns(e, pos) ==
  /\ e.sourceImageData # NoRaster
  /\ RoundQuarter(pos.x) >= 0 /\ RoundQuarter(pos.x) < e.sourceImageData.w
  /\ RoundQuarter(pos.y) >= 0 /\ RoundQuarter(pos.y) < e.sourceImageData.h

\* An apply loop that writes every cell, the unselected ones with the other
\* value (mutant of WriteSelection).
WriteSelectionWholesale(e, selected, addMode) ==
  [e EXCEPT !.canvas.px =
     [k \in 1..Len(e.canvas.px) |->
        IF (k - 1) \in selected
          THEN Store(IF addMode THEN 255 ELSE 0, e.canvas.a)
          ELSE Store(IF addMode THEN 0 ELSE 255, e.canvas.a)]]

\* The apply loop of _quickSelect: the selected cells take 255 (addMode) or
\* 0, through getImageData / putImageData.
WriteSelection(e, selected, addMode) ==
  [e EXCEPT !.canvas.px =
     [k \in 1..Len(e.canvas.px) |->
        IF (k - 1) \in selected /\ k <= e.sourceImageData.w * e.sourceImageData.h
          THEN Store(IF addMode THEN 255 ELSE 0, e.canvas.a)
          ELSE e.canvas.px[k]]]

\* _quickSelect(x, y, addMode) up to putImageData.
QuickSelect(e, pos, addMode) ==
  IF ~QuickSelectRuns(e, pos) THEN e
  ELSE WriteSelection(e, Selection(e, RoundQuarter(pos.x), RoundQuarter(pos.y)),
                      addMode)

(***************************************************************************)
(* app.js: the handlers that drive the renderer and the mask editor.       *)
(***************************************************************************)
MaxDim == 2048

\* Math.round(n * (maxDim / max)) for positive integers.
RoundScaled(n, max) == (2 * n * MaxDim + max) \div (2 * max)

\* The canvas size handleImageFile computes for an image.
CappedSize(image) ==
  LET max == IF image.w > image.h THEN image.w ELSE image.h
  IN IF image.w > MaxDim \/ image.h > MaxDim
       THEN [w |-> RoundScaled(image.w, max), h |-> RoundScaled(image.h, max)]
       ELSE [w |-> image.w, h |-> image.h]

\* No _quickSelect call is running.
NoFlood ==
  [ running |-> FALSE, pos |-> NoPos, addMode |-> TRUE, st |-> FloodStart(0),
    pushes |-> 0, iterations |-> 0, popped |-> TRUE ]

\* currentShader = null.
NoShader == [code |-> NullText]

\* What showStatus displays: the type of the message and the error it words.
Status(type, err) == [type |-> type, err |-> err]

NewApp ==
  [ loadedImage     |-> NoRaster,
    loadedImageFile |-> NoRaster,
    decoding        |-> {},
    aiMask          |-> << >>,
    samAvailable    |-> FALSE,
    samClicks       |-> << >>,
    polygons        |-> << >>,
    animate         |-> FALSE,
    currentShader   |-> NoShader,
    generateBtn     |-> [disabled |-> FALSE],
    generateStatus  |-> Status("hidden", [kind |-> "none", log |-> NullText]),
    generate        |-> << >>,
    reply           |-> NullText,
    flood           |-> NoFlood,
    pointer         |-> [down |-> FALSE, from |-> NoPos],
    shadersFile     |-> << >>,
    uuids           |-> 0,
    request         |-> [method |-> "none", id |-> 0, name |-> "", code |-> NullText,
                         status |-> 0],
    raf             |-> 0 ]

Outcome(op, call, err) == [op |-> op, call |-> call, err |-> err]

RemoveAt(q, k) == [j \in 1..(Len(q) - 1) |-> IF j < k THEN q[j] ELSE q[j + 1]]

Init ==
  /\ renderer = NewRenderer
  /\ maskEditor = NewMaskEditor
  /\ app = NewApp
  /\ glsl \in [CompilerInputs -> Verdicts]
  /\ premultiplied = TRUE
  /\ outcome = Outcome("init", "none", NoError)
  /\ stamps = 0

\* handleImageFile(file): remember the file and start decoding it.
HandleImageFile(image) ==
  /\ image \notin app.decoding
  /\ app' = [app EXCEPT !.loadedImageFile = image, !.decoding = @ \cup {image}]
  /\ outcome' = Outcome("handleImageFile", "none", NoError)
  /\ UNCHANGED <<renderer, maskEditor, glsl, premultiplied, stamps>>

\* img.onload of handleImageFile.
ImageOnload(image) ==
  /\ image \in app.decoding
  /\ LET size == CappedSize(image)
         sized == [renderer EXCEPT !.canvas = size,
                                   !.frame = BlankFrame(size.w, size.h)]
         shown == RenderPassthrough(SetImage(sized, image), glsl)
         resized == Resize(maskEditor, size.w, size.h)
     IN /\ renderer' = shown.r
        /\ maskEditor' = [SetSourceImage(resized, image) EXCEPT !.active = TRUE]
        /\ outcome' = Outcome("imageOnload", "renderPassthrough", shown.err)
  /\ app' = [app EXCEPT !.loadedImage = image, !.decoding = @ \ {image}]
  /\ stamps' = stamps
  /\ UNCHANGED <<glsl, premultiplied>>

\* removeImage().
RemoveImage ==
  /\ app.loadedImage # NoRaster
  /\ app' = [app EXCEPT !.loadedImage = NoRaster, !.loadedImageFile = NoRaster,
                        !.currentShader = NoShader]
  /\ maskEditor' = [maskEditor EXCEPT !.active = FALSE]
  /\ outcome' = Outcome("removeImage", "none", NoError)
  /\ UNCHANGED <<renderer, glsl, premultiplied, stamps>>

\* applyLibraryShader(id): setShader(shader.code) inside try / catch.
ApplyLibraryShader(code) ==
  /\ app.loadedImage # NoRaster
  /\ LET s == SetShader(renderer, glsl, code)
     IN /\ renderer' = s.r
        /\ app' = IF s.err = NoError THEN [app EXCEPT !.currentShader = [code |-> code]]
                                     ELSE app
        /\ outcome' = Outcome("applyLibraryShader", "setShader", s.err)
  /\ UNCHANGED <<maskEditor, glsl, premultiplied, stamps>>

\* The intensity slider's input handler.
IntensityInput(value) ==
  /\ renderer' = SetIntensity(renderer, value)
  /\ outcome' = Outcome("intensityInput", "setIntensity", NoError)
  /\ UNCHANGED <<maskEditor, app, glsl, premultiplied, stamps>>

\* The animate checkbox's change handler: setAnimating(checked).
AnimateToggle ==
  /\ LET s == SetAnimating(renderer, ~app.animate)
     IN /\ renderer' = s.r
        /\ app' = [app EXCEPT !.animate = ~@, !.raf = @ + s.raf]
  /\ outcome' = Outcome("animateToggle", "setAnimating", NoError)
  /\ UNCHANGED <<maskEditor, glsl, premultiplied, stamps>>

\* renderer.setAnimating(on) called with any argument, whatever the
\* renderer is doing.
SetAnimatingCall(on) ==
  /\ on => app.raf < MaxCallbacks
  /\ LET s == SetAnimating(renderer, on)
     IN /\ renderer' = s.r
        /\ app' = [app EXCEPT !.raf = @ + s.raf]
  /\ outcome' = Outcome("setAnimating", IF on THEN "on" ELSE "off", NoError)
  /\ UNCHANGED <<maskEditor, glsl, premultiplied, stamps>>

\* The requestAnimationFrame callback runs _animate().
AnimationFrame ==
  /\ app.raf > 0
  /\ IF renderer.animating
       THEN /\ renderer' = [Render(renderer) EXCEPT !.frameId = "pending"]
            /\ app' = app
       ELSE /\ renderer' = renderer
            /\ app' = [app EXCEPT !.raf = @ - 1]
  /\ outcome' = Outcome("animationFrame",
                        IF renderer.animating THEN "render" ELSE "none", NoError)
  /\ UNCHANGED <<maskEditor, glsl, premultiplied, stamps>>

\* downloadResult(): getCanvasDataURL() renders first.
DownloadResult ==
  /\ app.loadedImage # NoRaster
  /\ renderer' = Render(renderer)
  /\ outcome' = Outcome("downloadResult", "render", NoError)
  /\ UNCHANGED <<maskEditor, app, glsl, premultiplied, stamps>>

\* The Fill / Clear / Invert buttons; onChange uploads the canvas.
FillMask ==
  /\ maskEditor' = Fill(maskEditor)
  /\ renderer' = UpdateMask(renderer, maskEditor'.canvas)
  /\ outcome' = Outcome("fill", "updateMask", NoError)
  /\ UNCHANGED <<app, glsl, premultiplied, stamps>>

ClearMask ==
  /\ maskEditor' = Clear(maskEditor)
  /\ renderer' = UpdateMask(renderer, maskEditor'.canvas)
  /\ outcome' = Outcome("clear", "updateMask", NoError)
  /\ UNCHANGED <<app, glsl, premultiplied, stamps>>

InvertMask ==
  /\ maskEditor' = Invert(maskEditor)
  /\ renderer' = UpdateMask(renderer, maskEditor'.canvas)
  /\ outcome' = Outcome("invert", "updateMask", NoError)
  /\ UNCHANGED <<app, glsl, premultiplied, stamps>>


\* setMaskTool(mode) of the brush and eraser buttons.
SetMaskTool(mode) ==
  /\ maskEditor' = [maskEditor EXCEPT !.mode = mode]
  /\ outcome' = Outcome("setMaskTool", "setMode", NoError)
  /\ UNCHANGED <<renderer, app, glsl, premultiplied, stamps>>

\* The brush size slider's input handler.
BrushSizeInput(size) ==
  /\ maskEditor' = [maskEditor EXCEPT !.brushSize = size]
  /\ outcome' = Outcome("brushSizeInput", "setBrushSize", NoError)
  /\ UNCHANGED <<renderer, app, glsl, premultiplied, stamps>>

\* The softness slider's input handler (percent).
BrushSoftnessInput(percent) ==
  /\ maskEditor' = [maskEditor EXCEPT !.softness = percent]
  /\ outcome' = Outcome("brushSoftnessInput", "setSoftness", NoError)
  /\ UNCHANGED <<renderer, app, glsl, premultiplied, stamps>>

\* startPaint that goes on from the last position it knows (mutant of
\* StartPaint).
StartPaintContinuing(pos) ==
  /\ maskEditor.active
  /\ maskEditor.mode \in {"brush", "eraser"}
  /\ stamps < MaxStamps
  /\ maskEditor' = [Paint(maskEditor, pos, 1) EXCEPT
                      !.painting = TRUE,
                      !.lastPos = IF @ = NoPos THEN pos ELSE @]
  /\ renderer' = UpdateMask(renderer, maskEditor'.canvas)
  /\ stamps' = stamps + 1
  /\ outcome' = Outcome("startPaint", "updateMask", NoError)
  /\ app' = [app EXCEPT !.pointer = [down |-> TRUE, from |-> pos]]
  /\ UNCHANGED <<glsl, premultiplied>>

\* startPaint (mousedown / touchstart) in brush or eraser mode.  History:
\* app.pointer.down, a pointer-down reached the canvas and no pointer-up
\* followed; app.pointer.from, where the latest event of that stroke was.
StartPaint(pos) ==
  /\ maskEditor.active
  /\ maskEditor.mode \in {"brush", "eraser"}
  /\ stamps < MaxStamps
  /\ maskEditor' = [Paint(maskEditor, pos, 1) EXCEPT !.painting = TRUE, !.lastPos = pos]
  /\ renderer' = UpdateMask(renderer, maskEditor'.canvas)
  /\ stamps' = stamps + 1
  /\ outcome' = Outcome("startPaint", "updateMask", NoError)
  /\ app' = [app EXCEPT !.pointer = [down |-> TRUE, from |-> pos]]
  /\ UNCHANGED <<glsl, premultiplied>>

\* startPaint while the editor is inactive: the handler returns at once.
StartPaintIgnored ==
  /\ ~maskEditor.active
  /\ outcome' = Outcome("startPaint", "none", NoError)
  /\ app' = [app EXCEPT !.pointer.down = TRUE]
  /\ UNCHANGED <<renderer, maskEditor, glsl, premultiplied, stamps>>

\* paint in brush or eraser mode while the editor is inactive or no stroke
\* is being painted: the handler returns before it paints.
PaintIgnored ==
  /\ maskEditor.mode \in {"brush", "eraser"}
  /\ ~maskEditor.active \/ ~maskEditor.painting
  /\ outcome' = Outcome("paint", "none", NoError)
  /\ UNCHANGED <<renderer, maskEditor, app, glsl, premultiplied, stamps>>

\* paint (mousemove / touchmove) while painting.
PaintMove(pos) ==
  /\ maskEditor.active
  /\ maskEditor.mode \in {"brush", "eraser"}
  /\ maskEditor.painting
  /\ stamps < MaxStamps
  /\ maskEditor' = PaintTo(maskEditor, pos)
  /\ renderer' = UpdateMask(renderer, maskEditor'.canvas)
  /\ stamps' = stamps + StrokeSteps(maskEditor, pos) + 1
  /\ outcome' = Outcome("paint", "updateMask", NoError)
  /\ app' = [app EXCEPT !.pointer.from = pos]
  /\ UNCHANGED <<glsl, premultiplied>>

\* stopPaint (mouseup / mouseleave / touchend).
StopPaint ==
  /\ maskEditor' = [maskEditor EXCEPT !.painting = FALSE, !.lastPos = NoPos]
  /\ outcome' = Outcome("stopPaint", "none", NoError)
  /\ app' = [app EXCEPT !.pointer = [down |-> FALSE, from |-> NoPos]]
  /\ UNCHANGED <<renderer, glsl, premultiplied, stamps>>


\* The tolerance and grow sliders of quick select.
ToleranceInput(val) ==
  /\ maskEditor' = [maskEditor EXCEPT !.tolerance = val]
  /\ outcome' = Outcome("toleranceInput", "setTolerance", NoError)
  /\ UNCHANGED <<renderer, app, glsl, premultiplied, stamps>>

GrowRadiusInput(val) ==
  /\ maskEditor' = [maskEditor EXCEPT !.growRadius = val]
  /\ outcome' = Outcome("growRadiusInput", "setGrowRadius", NoError)
  /\ UNCHANGED <<renderer, app, glsl, premultiplied, stamps>>

\* startPaint, or paint with the button held, in quickselect mode; subtract
\* is the Alt key.  onChange runs only when _quickSelect did not return early.
QuickSelectAt(pos, subtract) ==
  /\ maskEditor.active
  /\ maskEditor.mode = "quickselect"
  /\ maskEditor' = QuickSelect(maskEditor, pos, ~subtract)
  /\ IF QuickSelectRuns(maskEditor, pos)
       THEN /\ renderer' = UpdateMask(renderer, maskEditor'.canvas)
            /\ outcome' = Outcome("quickSelect", "updateMask", NoError)
       ELSE /\ renderer' = renderer
            /\ outcome' = Outcome("quickSelect", "none", NoError)
  /\ UNCHANGED <<app, glsl, premultiplied, stamps>>

\* The image of a setFromImage call has loaded, on the mask of a loaded
\* image: the mask is replaced or merged and onChange uploads it.
SetFromImageOnload(img, additive) ==
  /\ maskEditor.active
  /\ maskEditor' = SetFromImage(maskEditor, img, additive)
  /\ renderer' = UpdateMask(renderer, maskEditor'.canvas)
  /\ outcome' = Outcome("setFromImage", IF additive THEN "additive" ELSE "replace",
                        NoError)
  /\ UNCHANGED <<app, glsl, premultiplied, stamps>>

\* The seed, seed colour and squared tolerance of the running _quickSelect.
FloodSeed == RoundQuarter(app.flood.pos.x)
               + RoundQuarter(app.flood.pos.y) * maskEditor.sourceImageData.w

FloodSeedColor == maskEditor.sourceImageData.px[FloodSeed + 1]

FloodTol == maskEditor.tolerance * maskEditor.tolerance * 3

\* _quickSelect(x, y, addMode) from its guards to the start of the while
\* loop; pushes counts queue.push and the initial entry, iterations the
\* rounds of the loop, popped tells that every round took the last entry.
FloodBegin(pos, subtract) ==
  /\ maskEditor.active
  /\ maskEditor.mode = "quickselect"
  /\ ~app.flood.running
  /\ QuickSelectRuns(maskEditor, pos)
  /\ app' = [app EXCEPT !.flood =
               [ running |-> TRUE, pos |-> pos, addMode |-> ~subtract,
                 st |-> FloodStart(RoundQuarter(pos.x)
                          + RoundQuarter(pos.y) * maskEditor.sourceImageData.w),
                 pushes |-> 1, iterations |-> 0, popped |-> TRUE ]]
  /\ outcome' = Outcome("quickSelect:begin", "none", NoError)
  /\ UNCHANGED <<renderer, maskEditor, glsl, premultiplied, stamps>>

\* One round of the while loop, taking the pending pixel at place i of the
\* work list (queue.pop() takes the last).
FloodStep(i) ==
  /\ app.flood.running
  /\ i \in 1..Len(app.flood.st.queue)
  /\ LET next == FloodStepAt(maskEditor.sourceImageData, FloodSeedColor, FloodTol,
                             app.flood.st, i)
     IN app' = [app EXCEPT !.flood.st = next,
                           !.flood.iterations = @ + 1,
                           !.flood.popped = @ /\ i = Len(app.flood.st.queue),
                           !.flood.pushes = @ + Len(next.queue) + 1
                                              - Len(app.flood.st.queue)]
  /\ outcome' = Outcome("quickSelect:step", "none", NoError)
  /\ UNCHANGED <<renderer, maskEditor, glsl, premultiplied, stamps>>

\* The while loop has ended: grow, apply to the mask canvas, onChange.
FloodEnd ==
  /\ app.flood.running
  /\ Len(app.flood.st.queue) = 0
  /\ maskEditor' = WriteSelection(maskEditor,
                                  Grown(app.flood.st.selected,
                                        maskEditor.sourceImageData.w,
                                        maskEditor.sourceImageData.h,
                                        maskEditor.growRadius),
                                  app.flood.addMode)
  /\ renderer' = UpdateMask(renderer, maskEditor'.canvas)
  /\ app' = [app EXCEPT !.flood = NoFlood]
  /\ outcome' = Outcome("quickSelect", "updateMask", NoError)
  /\ UNCHANGED <<glsl, premultiplied, stamps>>

\* What the HTTP collaborators can answer: a failure or a shader text.
HttpFailure == <<"http">>

Replies == Sources \cup {HttpFailure}

\* The error generateAIMask reports when a fetch fails.
FetchError == [kind |-> "fetch", log |-> NullText]

\* The SAM tool button: refused while SAM is unavailable.
SamSelectToolClick ==
  /\ app.samAvailable
  /\ SetMaskTool("sam")

\* startPaint in sam mode: handleSamClick(nx, ny, additive) up to its await,
\* POST /api/sam-click; additive is the shift key.
HandleSamClick(additive) ==
  /\ maskEditor.active
  /\ maskEditor.mode = "sam"
  /\ app.samAvailable
  /\ app.loadedImage # NoRaster
  /\ app.loadedImageFile # NoRaster
  /\ Len(app.samClicks) < MaxInflight
  /\ app' = [app EXCEPT !.samClicks = Append(@, [additive |-> additive])]
  /\ outcome' = Outcome("handleSamClick", "none", NoError)
  /\ UNCHANGED <<renderer, maskEditor, glsl, premultiplied, stamps>>

\* The /api/sam-click answer arrives.  Not ok: the error is reported.  Ok:
\* setFromPolygons(data.polygons, additive), whose onChange uploads the mask.
SamClickResponse(k, ok, polygons) ==
  /\ k \in 1..Len(app.samClicks)
  /\ LET res == SetFromPolygons(maskEditor, polygons)
     IN IF ~ok
          THEN /\ app' = [app EXCEPT !.samClicks = RemoveAt(@, k)]
               /\ outcome' = Outcome("samClick:failed", "none", FetchError)
               /\ UNCHANGED <<renderer, maskEditor>>
          ELSE /\ app' = [app EXCEPT !.samClicks = RemoveAt(@, k), !.polygons = polygons]
               /\ maskEditor' = res.e
               /\ renderer' = IF res.err = NoError
                                THEN UpdateMask(renderer, res.e.canvas)
                                ELSE renderer
               /\ outcome' = Outcome("samClick:done",
                                     IF app.samClicks[k].additive
                                       THEN "setFromPolygons:additive"
                                       ELSE "setFromPolygons",
                                     res.err)
  /\ UNCHANGED <<glsl, premultiplied, stamps>>

\* generateAIMask() up to its first await: POST /api/generate-mask.
GenerateAIMask ==
  /\ app.loadedImage # NoRaster
  /\ app.loadedImageFile # NoRaster
  /\ Len(app.aiMask) < MaxInflight
  /\ app' = [app EXCEPT !.aiMask =
               Append(@, [stage |-> "generate", shader |-> NullText, error |-> NoError])]
  /\ outcome' = Outcome("generateAIMask", "none", NoError)
  /\ UNCHANGED <<renderer, maskEditor, glsl, premultiplied, stamps>>

\* A failing generateAIMask continuation that still writes the (empty)
\* read-back into the mask (mutant of MaskRenderFailed).
MaskRenderFailedIngesting(r, e) ==
  LET cleared == SetFromGLPixels(e, ReadPixels([r EXCEPT !.frame =
                                   BlankFrame(r.canvas.w, r.canvas.h)]))
  IN [r |-> UpdateMask(r, cleared.canvas), e |-> cleared]

\* generateAIMask after renderMaskShader threw: the catch blocks touch
\* neither the renderer nor the editor.
MaskRenderFailed(r, e) == [r |-> r, e |-> e]

\* generateAIMask after renderMaskShader returned: setFromGLPixels, whose
\* onChange uploads the mask.
MaskRenderDone(r, e, pixels) ==
  LET written == SetFromGLPixels(e, pixels)
  IN [r |-> UpdateMask(r, written.canvas), e |-> written]

\* The /api/generate-mask answer arrives: renderMaskShader(data.maskShader),
\* and on a throw POST /api/fix-shader with the source and the message.
MaskShaderResponse(k, reply) ==
  /\ k \in 1..Len(app.aiMask)
  /\ app.aiMask[k].stage = "generate"
  /\ IF reply = HttpFailure
       THEN /\ app' = [app EXCEPT !.aiMask = RemoveAt(@, k)]
            /\ outcome' = Outcome("generateAIMask:failed", "none", FetchError)
            /\ UNCHANGED <<renderer, maskEditor, stamps>>
       ELSE LET res == RenderMaskShader(renderer, glsl, reply)
            IN IF res.err = NoError
                 THEN LET done == MaskRenderDone(res.r, maskEditor, res.pixels)
                      IN /\ renderer' = done.r
                         /\ maskEditor' = done.e
                         /\ stamps' = stamps
                         /\ app' = [app EXCEPT !.aiMask = RemoveAt(@, k)]
                         /\ outcome' = Outcome("generateAIMask:done", "renderMaskShader", NoError)
                 ELSE LET failed == MaskRenderFailed(res.r, maskEditor)
                      IN /\ renderer' = failed.r
                         /\ maskEditor' = failed.e
                         /\ stamps' = stamps
                         /\ app' = [app EXCEPT !.aiMask[k] =
                                      [stage |-> "fix", shader |-> reply, error |-> res.err]]
                         /\ outcome' = Outcome("generateAIMask:fixing", "renderMaskShader", res.err)
  /\ UNCHANGED <<glsl, premultiplied>>

\* The /api/fix-shader answer arrives: renderMaskShader(fixData.shader); a
\* second throw is reported with the first compile error.
FixShaderResponse(k, reply) ==
  /\ k \in 1..Len(app.aiMask)
  /\ app.aiMask[k].stage = "fix"
  /\ app' = [app EXCEPT !.aiMask = RemoveAt(@, k)]
  /\ IF reply = HttpFailure
       THEN /\ outcome' = Outcome("generateAIMask:failed", "none", app.aiMask[k].error)
            /\ UNCHANGED <<renderer, maskEditor, stamps>>
       ELSE LET res == RenderMaskShader(renderer, glsl, reply)
            IN IF res.err = NoError
                 THEN LET done == MaskRenderDone(res.r, maskEditor, res.pixels)
                      IN /\ renderer' = done.r
                         /\ maskEditor' = done.e
                         /\ stamps' = stamps
                         /\ outcome' = Outcome("generateAIMask:done", "renderMaskShader", NoError)
                 ELSE LET failed == MaskRenderFailed(res.r, maskEditor)
                      IN /\ renderer' = failed.r
                         /\ maskEditor' = failed.e
                         /\ stamps' = stamps
                         /\ outcome' = Outcome("generateAIMask:failed", "renderMaskShader",
                                               app.aiMask[k].error)
  /\ UNCHANGED <<glsl, premultiplied>>

\* The errors generateShader words before it sends anything.
NoDescription == [kind |-> "describe", log |-> NullText]

NoImage == [kind |-> "upload", log |-> NullText]

\* generateShader() up to its first await: POST /api/generate-shader, unless
\* the description is empty or no image is loaded.
GenerateShader(described) ==
  /\ IF ~described
       THEN app' = [app EXCEPT !.generateStatus = Status("error", NoDescription)]
       ELSE IF app.loadedImage = NoRaster
         THEN app' = [app EXCEPT !.generateStatus = Status("error", NoImage)]
         ELSE /\ Len(app.generate) < MaxGenerating
              /\ app' = [app EXCEPT
                           !.generateBtn.disabled = TRUE,
                           !.generateStatus = Status("loading", NoError),
                           !.generate = Append(@, [stage |-> "generate",
                                                   shader |-> NullText,
                                                   error |-> NoError])]
  /\ outcome' = Outcome("generateShader", "none", NoError)
  /\ UNCHANGED <<renderer, maskEditor, glsl, premultiplied, stamps>>

\* generateShader's catch (retryErr) that words the retry's error (mutant of
\* FixFailureStatus).
FixFailureStatusOfRetry(compileErr, retryErr) == Status("error", retryErr)

\* generateShader's catch (retryErr): throw new Error('Shader compilation
\* failed: ' + compileErr.message), worded by the outer catch.
FixFailureStatus(compileErr, retryErr) == Status("error", compileErr)

\* The /api/generate-shader answer arrives: setShader(data.shader); on a
\* throw POST /api/fix-shader with the source and the message.
GenerateShaderResponse(k, reply) ==
  /\ k \in 1..Len(app.generate)
  /\ app.generate[k].stage = "generate"
  /\ IF reply = HttpFailure
       THEN /\ app' = [app EXCEPT !.generate = RemoveAt(@, k),
                                  !.reply = reply,
                                  !.generateStatus = Status("error", FetchError),
                                  !.generateBtn.disabled = FALSE]
            /\ outcome' = Outcome("generateShader:failed", "fetch", FetchError)
            /\ renderer' = renderer
       ELSE LET s == SetShader(renderer, glsl, reply)
            IN /\ renderer' = s.r
               /\ IF s.err = NoError
                    THEN /\ app' = [app EXCEPT !.generate = RemoveAt(@, k),
                                               !.reply = reply,
                                               !.currentShader = [code |-> reply],
                                               !.generateStatus = Status("success", NoError),
                                               !.generateBtn.disabled = FALSE]
                         /\ outcome' = Outcome("generateShader:done", "setShader", NoError)
                    ELSE /\ app' = [app EXCEPT !.generate[k] =
                                                 [stage |-> "fix", shader |-> reply,
                                                  error |-> s.err],
                                               !.reply = reply,
                                               !.generateStatus = Status("loading", NoError)]
                         /\ outcome' = Outcome("generateShader:fixing", "setShader", s.err)
  /\ UNCHANGED <<maskEditor, glsl, premultiplied, stamps>>

\* The /api/fix-shader answer arrives: setShader(fixData.shader); a failed
\* request or a second throw is reported with the first compile error.
GenerateFixResponse(k, reply) ==
  /\ k \in 1..Len(app.generate)
  /\ app.generate[k].stage = "fix"
  /\ LET s == SetShader(renderer, glsl, reply)
         retryErr == IF reply = HttpFailure THEN FetchError ELSE s.err
         failed == FixFailureStatus(app.generate[k].error, retryErr)
     IN /\ renderer' = IF reply = HttpFailure THEN renderer ELSE s.r
        /\ IF retryErr = NoError
             THEN /\ app' = [app EXCEPT !.generate = RemoveAt(@, k),
                                        !.reply = reply,
                                        !.currentShader = [code |-> reply],
                                        !.generateStatus = Status("success", NoError),
                                        !.generateBtn.disabled = FALSE]
                  /\ outcome' = Outcome("generateShader:done", "fixShader", NoError)
             ELSE /\ app' = [app EXCEPT !.generate = RemoveAt(@, k),
                                        !.reply = reply,
                                        !.generateStatus = failed,
                                        !.generateBtn.disabled = FALSE]
                  /\ outcome' = Outcome("generateShader:failed", "fixShader", failed.err)
  /\ UNCHANGED <<maskEditor, glsl, premultiplied, stamps>>

Intensities == {0, 50, 100}

Next ==
  \/ \E image \in Images : HandleImageFile(image)
  \/ \E image \in Images : ImageOnload(image)
  \/ \E code \in Sources : ApplyLibraryShader(code)
  \/ GenerateAIMask
  \/ \E k \in 1..MaxInflight, reply \in Replies : MaskShaderResponse(k, reply)
  \/ \E k \in 1..MaxInflight, reply \in Replies : FixShaderResponse(k, reply)

Spec == Init /\ [][Next]_vars


(***************************************************************************)
(* The mask editor driven by its buttons, sliders and pointer events.      *)
(***************************************************************************)
MaskImages == {StripImage}

BrushSizes == {2}

Softnesses == {0, 100}

\* The pointer over the canvas of a loaded image.
MaskPointers == UNION {PointerPositions(CappedSize(image)) : image \in MaskImages}

InitMask ==
  /\ renderer = NewRenderer
  /\ maskEditor = NewMaskEditor
  /\ app = NewApp
  /\ glsl = [c \in CompilerInputs |-> "ok"]
  /\ premultiplied \in BOOLEAN
  /\ outcome = Outcome("init", "none", NoError)
  /\ stamps = 0

NextMask ==
  \/ \E image \in MaskImages : HandleImageFile(image) \/ ImageOnload(image)
  \/ FillMask
  \/ ClearMask
  \/ InvertMask
  \/ \E mode \in {"brush", "eraser"} : SetMaskTool(mode)
  \/ \E size \in BrushSizes : BrushSizeInput(size)
  \/ \E percent \in Softnesses : BrushSoftnessInput(percent)
  \/ \E pos \in MaskPointers : StartPaint(pos) \/ PaintMove(pos)
  \/ StopPaint

SpecMask == InitMask /\ [][NextMask]_vars

(***************************************************************************)
(* The compositor: library shaders, the intensity slider and mask edits    *)
(* with a driver that accepts every shader.                                *)
(***************************************************************************)
\* The smallest brush: a stamp reaches one cell of the canvas.
FineBrush == {1}

CompositorPointers == UNION {PointerPositions(CappedSize(image)) : image \in Images}

NextCompositor ==
  \/ \E image \in Images : HandleImageFile(image) \/ ImageOnload(image)
  \/ \E code \in Sources : ApplyLibraryShader(code)
  \/ \E value \in Intensities : IntensityInput(value)
  \/ FillMask
  \/ ClearMask
  \/ InvertMask
  \/ \E size \in FineBrush : BrushSizeInput(size)
  \/ \E pos \in CompositorPointers : StartPaint(pos)
  \/ AnimateToggle
  \/ AnimationFrame
  \/ DownloadResult

SpecCompositor == InitMask /\ [][NextCompositor]_vars

(***************************************************************************)
(* Quick select driven by its sliders and the pointer.                     *)
(***************************************************************************)
Tolerances == {0, 32, 150}

GrowRadii == {0, 1, 2}

\* Where the pointer can be in quick select: over the centre of a cell
\* (both coordinates round up) or a quarter pixel from its left or top edge
\* (that coordinate rounds down).
QuickSelectPointers(canvas) ==
  {[x |-> 4 * c + dx, y |-> 4 * r + dy] :
     c \in 0..(canvas.w - 1), r \in 0..(canvas.h - 1), dx \in {1, 2}, dy \in {1, 2}}

\* The images quick select is tried on.
SelectImages == {ToneImage}

SeedPointers == UNION {QuickSelectPointers(CappedSize(image)) : image \in SelectImages}

NextQS ==
  \/ \E image \in SelectImages : HandleImageFile(image) \/ ImageOnload(image)
  \/ SetMaskTool("quickselect")
  \/ \E val \in Tolerances : ToleranceInput(val)
  \/ \E val \in GrowRadii : GrowRadiusInput(val)
  \/ \E pos \in SeedPointers, subtract \in BOOLEAN : QuickSelectAt(pos, subtract)
  \/ ClearMask
  \/ FillMask

SpecQS == InitMask /\ [][NextQS]_vars

(***************************************************************************)
(* The flood fill of quick select round by round, the pending pixels taken *)
(* in any order.                                                           *)
(***************************************************************************)
\* Two dark cells cut off from the dark and dim cells of the first column
\* by a bright column.
IslandImage == [w |-> 3, h |-> 2, px |-> <<Dark, Bright, Dark, Dim, Bright, Dark>>]

FloodImages == {IslandImage}

\* The pointer a quarter pixel inside the left and top edge of a cell: the
\* seed is that cell.
FloodPointers ==
  UNION {{[x |-> 4 * c + 1, y |-> 4 * r + 1] :
            c \in 0..(CappedSize(image).w - 1), r \in 0..(CappedSize(image).h - 1)} :
         image \in FloodImages}

\* _quickSelect runs to its end before another handler can run.
NextFlood ==
  \/ /\ ~app.flood.running
     /\ \/ \E image \in FloodImages : HandleImageFile(image) \/ ImageOnload(image)
        \/ SetMaskTool("quickselect")
        \/ \E val \in Tolerances : ToleranceInput(val)
  \/ \E pos \in FloodPointers : FloodBegin(pos, FALSE)
  \/ \E i \in 1..(IslandImage.w * IslandImage.h) : FloodStep(i)
  \/ FloodEnd

SpecFlood == InitMask /\ [][NextFlood]_vars

\* The loop goes on while the work list is not empty.
SpecFloodFair == SpecFlood /\ WF_vars(\E i \in 1..(IslandImage.w * IslandImage.h) : FloodStep(i))

(***************************************************************************)
(* The renderer's animation under any sequence of setAnimating calls.      *)
(***************************************************************************)
NextAnimation ==
  \/ \E image \in Images : HandleImageFile(image) \/ ImageOnload(image)
  \/ \E code \in Sources : ApplyLibraryShader(code)
  \/ \E value \in Intensities : IntensityInput(value)
  \/ \E on \in BOOLEAN : SetAnimatingCall(on)
  \/ AnimationFrame

SpecAnimation == InitMask /\ [][NextAnimation]_vars

(***************************************************************************)
(* server.js: the shader library kept in shaders.json.  app.shadersFile is *)
(* the array the file holds, app.uuids the number of ids crypto.randomUUID *)
(* has minted, app.request the request handled last with its status.       *)
(***************************************************************************)
\* The names and codes a request body can carry; "" and null are missing.
Names == {"", "glow", "noir"}

Codes == {NullText, GlowEdgesSrc}

\* The ids a request can address: the minted ones and one never minted.
Ids == 1..(MaxSaved + 1)

\* shaders.findIndex(s => s.id === id): the place of the first record with
\* that id, 0 for -1.
FindIndex(shaders, id) ==
  IF \E j \in 1..Len(shaders) : shaders[j].id = id
    THEN CHOOSE j \in 1..Len(shaders) :
           /\ shaders[j].id = id
           /\ \A i \in 1..(j - 1) : shaders[i].id # id
    ELSE 0

\* POST /api/shaders with a fresh id: the array saved and the status.
PostShader(shaders, id, name, code) ==
  IF name = "" \/ code = NullText
    THEN [saved |-> shaders, status |-> 400]
    ELSE [saved |-> Append(shaders, [id |-> id, name |-> name, code |-> code]),
          status |-> 200]

\* PUT /api/shaders/:id: the array saved and the status.
PutShader(shaders, id, name) ==
  IF name = "" THEN [saved |-> shaders, status |-> 400]
  ELSE IF FindIndex(shaders, id) = 0 THEN [saved |-> shaders, status |-> 404]
  ELSE [saved |-> [shaders EXCEPT ![FindIndex(shaders, id)].name = name],
        status |-> 200]

\* A delete that removes the first record of the array (mutant of
\* DeleteShader).
DeleteShaderFirst(shaders, id) ==
  IF FindIndex(shaders, id) = 0 THEN [saved |-> shaders, status |-> 404]
  ELSE [saved |-> RemoveAt(shaders, 1), status |-> 200]

\* DELETE /api/shaders/:id: the array saved and the status.
DeleteShader(shaders, id) ==
  IF FindIndex(shaders, id) = 0 THEN [saved |-> shaders, status |-> 404]
  ELSE [saved |-> RemoveAt(shaders, FindIndex(shaders, id)), status |-> 200]

\* The handler of GET /api/shaders.
GetShaders ==
  /\ app' = [app EXCEPT !.request = [method |-> "get", id |-> 0, name |-> "",
                                     code |-> NullText, status |-> 200]]
  /\ outcome' = Outcome("getShaders", "loadShaders", NoError)
  /\ UNCHANGED <<renderer, maskEditor, glsl, premultiplied, stamps>>

\* The handler of POST /api/shaders, from loadShaders to saveShaders in one
\* synchronous run.
PostShaders(name, code) ==
  /\ app.uuids < MaxSaved
  /\ LET id == app.uuids + 1
         res == PostShader(app.shadersFile, id, name, code)
     IN app' = [app EXCEPT !.shadersFile = res.saved,
                           !.uuids = IF res.status = 200 THEN id ELSE @,
                           !.request = [method |-> "post", id |-> id, name |-> name,
                                        code |-> code, status |-> res.status]]
  /\ outcome' = Outcome("postShaders", "saveShaders", NoError)
  /\ UNCHANGED <<renderer, maskEditor, glsl, premultiplied, stamps>>

\* The handler of PUT /api/shaders/:id.
PutShaders(id, name) ==
  /\ LET res == PutShader(app.shadersFile, id, name)
     IN app' = [app EXCEPT !.shadersFile = res.saved,
                           !.request = [method |-> "put", id |-> id, name |-> name,
                                        code |-> NullText, status |-> res.status]]
  /\ outcome' = Outcome("putShaders", "saveShaders", NoError)
  /\ UNCHANGED <<renderer, maskEditor, glsl, premultiplied, stamps>>

\* The handler of DELETE /api/shaders/:id.
DeleteShaders(id) ==
  /\ LET res == DeleteShader(app.shadersFile, id)
     IN app' = [app EXCEPT !.shadersFile = res.saved,
                           !.request = [method |-> "delete", id |-> id, name |-> "",
                                        code |-> NullText, status |-> res.status]]
  /\ outcome' = Outcome("deleteShaders", "saveShaders", NoError)
  /\ UNCHANGED <<renderer, maskEditor, glsl, premultiplied, stamps>>

\* Requests of any clients, handled one at a time in any order.
NextLibrary ==
  \/ GetShaders
  \/ \E name \in Names, code \in Codes : PostShaders(name, code)
  \/ \E id \in Ids, name \in Names : PutShaders(id, name)
  \/ \E id \in Ids : DeleteShaders(id)

SpecLibrary == InitMask /\ [][NextLibrary]_vars

(***************************************************************************)
(* Strokes: pointer events in any state of the editor.                     *)
(***************************************************************************)
NextStroke ==
  \/ \E image \in MaskImages : HandleImageFile(image) \/ ImageOnload(image)
  \/ RemoveImage
  \/ \E mode \in {"brush", "eraser"} : SetMaskTool(mode)
  \/ \E pos \in MaskPointers : StartPaint(pos) \/ PaintMove(pos)
  \/ StartPaintIgnored
  \/ PaintIgnored
  \/ StopPaint

SpecStroke == InitMask /\ [][NextStroke]_vars

(***************************************************************************)
(* Mask images ingested by setFromImage.                                   *)
(***************************************************************************)
\* Incoming mask images: one of the size of the mask with values on both
\* sides of the midpoint, a narrower one, a single pixel and a taller one.
IncomingMasks ==
  { [w |-> 3, h |-> 1, px |-> <<0, 127, 128>>],
    [w |-> 2, h |-> 1, px |-> <<255, 0>>],
    [w |-> 1, h |-> 1, px |-> <<200>>],
    [w |-> 3, h |-> 2, px |-> <<0, 255, 0, 255, 0, 255>>] }

NextIngest ==
  \/ \E image \in MaskImages : HandleImageFile(image) \/ ImageOnload(image)
  \/ ClearMask
  \/ FillMask
  \/ InvertMask
  \/ \E img \in IncomingMasks, additive \in BOOLEAN : SetFromImageOnload(img, additive)

SpecIngest == InitMask /\ [][NextIngest]_vars

(***************************************************************************)
(* Loading and removing images, one of them longer than maxDim.            *)
(***************************************************************************)
\* An image one pixel longer than maxDim.
LongImage == [w |-> MaxDim + 1, h |-> 1, px |-> [k \in 1..(MaxDim + 1) |-> Dim]]

LoadImages == {StripImage, WideImage, LongImage}

NextLoad ==
  \/ \E image \in LoadImages : HandleImageFile(image) \/ ImageOnload(image)
  \/ RemoveImage

SpecLoad == InitMask /\ [][NextLoad]_vars

(***************************************************************************)
(* Shader generation with its one automatic repair, on any driver.         *)
(***************************************************************************)
NextGenerate ==
  \/ \E image \in Images : HandleImageFile(image) \/ ImageOnload(image)
  \/ RemoveImage
  \/ \E code \in Sources : ApplyLibraryShader(code)
  \/ \E described \in BOOLEAN : GenerateShader(described)
  \/ \E k \in 1..MaxGenerating, reply \in Replies : GenerateShaderResponse(k, reply)
  \/ \E k \in 1..MaxGenerating, reply \in Replies : GenerateFixResponse(k, reply)

SpecGenerate == Init /\ [][NextGenerate]_vars

(***************************************************************************)
(* Polygon masks: the segmentation answers rasterized by setFromPolygons.  *)
(***************************************************************************)
\* A 4 x 4 image: the quarters of the normalized unit are its pixel corners.
QuadImage ==
  [w |-> 4, h |-> 4, px |-> [k \in 1..16 |-> IF k \in {6, 7, 10, 11} THEN Bright ELSE Dark]]

PolygonImages == {QuadImage}

\* The square [[0.25,0.25],[0.75,0.25],[0.75,0.75],[0.25,0.75]].
SquareLoop == << <<1, 1>>, <<3, 1>>, <<3, 3>>, <<1, 3>> >>

\* The triangle above the diagonal: [[0,0],[1,0],[0,1]].
TriangleLoop == << <<0, 0>>, <<4, 0>>, <<0, 4>> >>

\* The top left sixteenth: [[0,0],[0.25,0],[0.25,0.25],[0,0.25]].
CornerLoop == << <<0, 0>>, <<1, 0>>, <<1, 1>>, <<0, 1>> >>

\* Degenerate loops: two vertices, and null.
SegmentLoop == << <<1, 1>>, <<3, 3>> >>

NullLoop == << >>

Loops == {SquareLoop, TriangleLoop, CornerLoop, SegmentLoop, NullLoop}

\* data.polygons: no loop, one loop, or two loops of which one is the square.
PolygonReplies ==
  {<< >>} \cup {<<a>> : a \in Loops}
    \cup {<<a, SquareLoop>> : a \in Loops \ {SquareLoop}}
    \cup {<<SquareLoop, SegmentLoop>>, <<SegmentLoop, NullLoop>>}

InitPolygon ==
  /\ renderer = NewRenderer
  /\ maskEditor = NewMaskEditor
  /\ \E available \in BOOLEAN : app = [NewApp EXCEPT !.samAvailable = available]
  /\ glsl = [c \in CompilerInputs |-> "ok"]
  /\ premultiplied \in BOOLEAN
  /\ outcome = Outcome("init", "none", NoError)
  /\ stamps = 0

NextPolygon ==
  \/ \E image \in PolygonImages : HandleImageFile(image) \/ ImageOnload(image)
  \/ SamSelectToolClick
  \/ \E additive \in BOOLEAN : HandleSamClick(additive)
  \/ \E k \in 1..MaxInflight, ok \in BOOLEAN, polygons \in PolygonReplies :
       SamClickResponse(k, ok, polygons)

SpecPolygon == InitPolygon /\ [][NextPolygon]_vars

(***************************************************************************)
(* Claims about the renderer's shader state (checked under Spec).          *)
(***************************************************************************)
\* C1: when setShader fails to compile or link, the error carries the raw
\* diagnostic and the renderer's program is still the previously active one.
C1_SetShaderFailureKeepsProgram ==
  [][(outcome'.call = "setShader" /\ outcome'.err # NoError)
       => /\ outcome'.err.kind \in {"compile", "link"}
          /\ outcome'.err.log # NullText
          /\ renderer'.program = renderer.program]_vars

\* C2: when renderMaskShader is given a shader that does not compile, the
\* diagnostic propagates and the active shader is untouched: the program
\* and currentShaderCode are what they were before the call.
C2_MaskShaderFailureKeepsShader ==
  [][(outcome'.call = "renderMaskShader" /\ outcome'.err # NoError)
       => /\ renderer'.program = renderer.program
          /\ renderer'.currentShaderCode = renderer.currentShaderCode]_vars

\* A real shader is active: a program compiled from currentShaderCode.
RealShaderActive(r) == r.currentShaderCode # NullText /\ r.program = r.currentShaderCode

\* Passthrough is active.
PassthroughActive(r) == r.currentShaderCode = NullText /\ r.program = PassthroughShader

\* C3: from every reachable state, after any setIntensity and setAnimating
\* calls, in which a real shader or passthrough is active, every
\* renderMaskShader call that returns leaves program, currentShaderCode,
\* intensity, animating and both textures as they were.
C3_MaskShaderRestoresState ==
  \A source \in Sources, value \in Intensities, on \in BOOLEAN :
    LET before == SetAnimating(SetIntensity(renderer, value), on).r
        res == RenderMaskShader(before, glsl, source)
    IN (res.err = NoError /\ (RealShaderActive(before) \/ PassthroughActive(before)))
         => /\ res.r.program = before.program
            /\ res.r.currentShaderCode = before.currentShaderCode
            /\ res.r.intensity = before.intensity
            /\ res.r.animating = before.animating
            /\ res.r.imageTexture = before.imageTexture
            /\ res.r.maskTexture = before.maskTexture

\* C3 witness: a mask generation has just completed while a real shader,
\* whose text the sanitizer had rewritten, was active.
C3_Witness ==
  /\ outcome.op = "generateAIMask:done"
  /\ RealShaderActive(renderer)
  /\ renderer.currentShaderCode = SanitizeShader(GlowEdgesSrc)
  /\ renderer.currentShaderCode # GlowEdgesSrc

\* C4: a generateAIMask whose mask shader fails to compile, at the first
\* attempt or after the auto-fix retry, changes no Mask Buffer cell.
C4_FailedMaskRenderKeepsMask ==
  [][outcome'.op \in {"generateAIMask:fixing", "generateAIMask:failed"}
       => maskEditor'.canvas = maskEditor.canvas]_vars

\* C4 witness: the retry after the auto-fix has failed to compile too, with
\* a mask that an earlier mask generation had written.
C4_Witness ==
  /\ outcome.op = "generateAIMask:failed"
  /\ outcome.call = "renderMaskShader"
  /\ \E k \in 1..Len(maskEditor.canvas.px) : maskEditor.canvas.px[k] = 0


(***************************************************************************)
(* Claims about the Mask Buffer (checked under SpecMask).                  *)
(***************************************************************************)
\* C5: every step that changes the Mask Buffer, resize included, re-uploads
\* the mask texture in the same handler, so the texture is never stale.
C5_MaskMutationUploads ==
  [][maskEditor'.canvas # maskEditor.canvas
       => renderer'.maskTexture = Uploaded(maskEditor'.canvas)]_vars

\* Every cell of a canvas holds a value in 0..255.
CellsInRange(canvas) == \A k \in 1..Len(canvas.px) : canvas.px[k] \in 0..255

C7_InvertInvolutive ==
  /\ Invert(Invert(maskEditor)).canvas = maskEditor.canvas
  /\ Invert(maskEditor).canvas.a = maskEditor.canvas.a

\* C7 witness: invert() has just run on a mask with a soft-edged cell.
C7_Witness ==
  /\ outcome.op = "invert"
  /\ \E k \in 1..Len(maskEditor.canvas.px) :
       maskEditor.canvas.px[k] \notin {0, 255}

\* C8: on any reachable mask fill() twice is fill() once, all cells 255,
\* and clear() twice is clear() once, all cells 0.
C8_FillClearIdempotent ==
  /\ Fill(Fill(maskEditor)) = Fill(maskEditor)
  /\ \A k \in 1..Len(maskEditor.canvas.px) : Fill(maskEditor).canvas.px[k] = 255
  /\ Clear(Clear(maskEditor)) = Clear(maskEditor)
  /\ \A k \in 1..Len(maskEditor.canvas.px) : Clear(maskEditor).canvas.px[k] = 0

\* C8 witness: fill() has just run on a mask that strokes had painted.
C8_Witness ==
  /\ outcome.op = "fill"
  /\ stamps > 0
  /\ maskEditor.canvas.px = UniformPx(Len(maskEditor.canvas.px), 255)

\* The brush sizes a stroke is measured with.
StrokeSizes == {1, 2, 5, 20}

\* The previous samples of a stroke: the pointer positions, and lastPos.
StrokeStarts == MaskPointers \cup ({maskEditor.lastPos} \ {NoPos})

\* The squared gap between consecutive stamps of the segment lastPos -> pos
\* is at most bound * bound (lengths in quarter pixels).
GapsWithin(e, pos, bound) ==
  LET steps == StrokeSteps(e, pos)
      d2 == StrokeDistSq(e.lastPos, pos)
  IN IF steps > 0 THEN d2 <= steps * steps * bound * bound
                  ELSE d2 <= bound * bound

\* The midpoint of the segment lastPos -> pos lies in the disc of the stamp
\* at lastPos, of an interpolated stamp or of the stamp at pos (coordinates
\* scaled by 2 * n, n the number of stamps after lastPos).
MidpointPainted(e, pos) ==
  LET last == e.lastPos
      n == IF StrokeSteps(e, pos) > 0 THEN StrokeSteps(e, pos) ELSE 1
      radius == 4 * e.brushSize
  IN \E i \in 0..n :
       LET sx == 2 * (last.x * n + (pos.x - last.x) * i)
           sy == 2 * (last.y * n + (pos.y - last.y) * i)
           mx == n * (last.x + pos.x)
           my == n * (last.y + pos.y)
       IN (sx - mx) * (sx - mx) + (sy - my) * (sy - my)
            <= (2 * n * radius) * (2 * n * radius)

\* C16 as stated: while a stroke is being painted, whatever sample comes
\* next, consecutive stamps are never more than a quarter of the brush
\* radius apart (brushSize quarter pixels) and the midpoint is painted.
C16_QuarterRadiusGaps ==
  (maskEditor.painting /\ maskEditor.lastPos # NoPos) =>
    \A pos \in MaskPointers :
      /\ GapsWithin(maskEditor, pos, maskEditor.brushSize)
      /\ MidpointPainted(maskEditor, pos)

\* C16 amended: for every brush size and every pair of consecutive samples,
\* if their distance exceeds step = max(1 pixel, brushRadius / 4) then
\* ceil(distance / step) stamps are interpolated, so that consecutive stamps
\* are never more than step apart, and the midpoint is painted.
C16_StrokeContinuity ==
  \A size \in StrokeSizes \cup {maskEditor.brushSize}, last \in StrokeStarts,
     pos \in MaskPointers :
    LET e == [maskEditor EXCEPT !.brushSize = size, !.lastPos = last]
        d2 == StrokeDistSq(last, pos)
    IN /\ d2 > StrokeStep(e) * StrokeStep(e)
            => /\ StrokeSteps(e, pos) > 0
               /\ StrokeSteps(e, pos) * StrokeSteps(e, pos) * StrokeStep(e) * StrokeStep(e) >= d2
               /\ (StrokeSteps(e, pos) - 1) * (StrokeSteps(e, pos) - 1)
                    * StrokeStep(e) * StrokeStep(e) < d2
       /\ GapsWithin(e, pos, StrokeStep(e))
       /\ 4 * StrokeStep(e) = (IF size > 4 THEN 4 * size ELSE 16)
       /\ MidpointPainted(e, pos)

\* C16 witness: a paint event two pixels from the start of the stroke has
\* interpolated two stamps before its own.
C16_Witness ==
  /\ outcome.op = "paint"
  /\ maskEditor.brushSize = 2
  /\ stamps = 4
  /\ maskEditor.lastPos \in MaskPointers

(***************************************************************************)
(* Claims about the composited frame (checked under SpecCompositor).       *)
(***************************************************************************)
\* The original colour and the mask sample render() reads at frame pixel k.
OriginalAt(k) ==
  TexSample(renderer.imageTexture, k, renderer.canvas.w, renderer.canvas.h)

MaskAt(k) ==
  TexSample(renderer.maskTexture, k, renderer.canvas.w, renderer.canvas.h)

\* The frame on the canvas was drawn by render() from the current state.
FrameIsCurrent == renderer.program # NullText /\ renderer.imageLoaded

\* The frame shows the original pixel wherever mask x intensity is 0.
IdentityWhereMasked ==
  \A k \in 1..Len(renderer.frame.px) :
    MaskAt(k) * renderer.intensity = 0 => renderer.frame.px[k] = OriginalAt(k)

\* The shader's gl_FragColor statement is the passthrough or the contract's
\* mix(original, effected, mask * u_intensity).
HonoursContract(prog) == prog[Len(prog)] \in {"img", "mix"}

\* C9 as stated: whichever shader the pipeline has accepted, the output
\* pixel equals the original pixel wherever mask x intensity = 0.
C9_IdentityAnyShader == FrameIsCurrent => IdentityWhereMasked

\* C9 amended: for the passthrough and for every accepted shader whose
\* output statement is the contract's mix, the output pixel equals the
\* original pixel wherever mask x intensity = 0.
C9_IdentityContractShaders ==
  (FrameIsCurrent /\ HonoursContract(renderer.program)) => IdentityWhereMasked

\* C9 witness: an effect shader is drawn over a mask with a zero cell and
\* with a non-zero intensity, and the effect shows at some other pixel.
C9_Witness ==
  /\ FrameIsCurrent
  /\ renderer.program = SanitizeShader(GlowEdgesSrc)
  /\ renderer.intensity > 0
  /\ \E k \in 1..Len(renderer.frame.px) : MaskAt(k) = 0
  /\ \E k \in 1..Len(renderer.frame.px) : renderer.frame.px[k] # OriginalAt(k)


(***************************************************************************)
(* Claims about quick select (checked under SpecQS).                       *)
(***************************************************************************)
\* C10: in every reachable editor state, for every pointer position whose
\* rounded seed is inside the image and either mode, the seed cell is in
\* the selection and holds the written value after _quickSelect.
C10_SeedSelected ==
  \A pos \in QuickSelectPointers(maskEditor.canvas), addMode \in BOOLEAN :
    QuickSelectRuns(maskEditor, pos)
      => LET ix == RoundQuarter(pos.x)
             iy == RoundQuarter(pos.y)
             seed == ix + iy * maskEditor.sourceImageData.w
         IN /\ seed \in Selection(maskEditor, ix, iy)
            /\ QuickSelect(maskEditor, pos, addMode).canvas.px[seed + 1]
                 = IF addMode THEN 255 ELSE 0

\* C10 witness: a quick select with tolerance 0 and no grow has written its
\* seed cell and left a cell of another colour alone.
C10_Witness ==
  /\ outcome = Outcome("quickSelect", "updateMask", NoError)
  /\ maskEditor.tolerance = 0
  /\ maskEditor.growRadius = 0
  /\ \E j, k \in 1..Len(maskEditor.canvas.px) :
       maskEditor.canvas.px[j] = 255 /\ maskEditor.canvas.px[k] = 0

\* The seed cells of the source image quick select works on.
SeedCells(e) ==
  {<<ix, iy>> : ix \in 0..(e.sourceImageData.w - 1), iy \in 0..(e.sourceImageData.h - 1)}

\* C11: for every seed of the image, with the grow radius as it is, the
\* set selected with tolerance t1 is a subset of the set selected with any
\* tolerance t2 >= t1.
C11_ToleranceMonotone ==
  \A seed \in SeedCells(maskEditor), t1 \in Tolerances, t2 \in Tolerances :
    t1 <= t2 =>
      Selection([maskEditor EXCEPT !.tolerance = t1], seed[1], seed[2])
        \subseteq Selection([maskEditor EXCEPT !.tolerance = t2], seed[1], seed[2])

\* C11 witness: on the three-tone image a quick select from the dark corner
\* has selected the corner and its dim neighbours and left the bright cell,
\* more than tolerance 0 selects and less than tolerance 150 does.
C11_Witness ==
  /\ outcome = Outcome("quickSelect", "updateMask", NoError)
  /\ maskEditor.sourceImageData.px = ToneImage.px
  /\ maskEditor.growRadius = 0
  /\ Selection(maskEditor, 0, 0) = {0, 1, 2}
  /\ Selection([maskEditor EXCEPT !.tolerance = 0], 0, 0) = {0}
  /\ Selection([maskEditor EXCEPT !.tolerance = 150], 0, 0) = {0, 1, 2, 3}
  /\ maskEditor.canvas.px = <<0, 0, 0, 255>>

\* The in-bounds cells within Euclidean distance r of a cell of set.
WithinDistance(set, w, h, r) ==
  { n \in 0..(w * h - 1) :
      \E g \in set :
        LET dx == (n % w) - (g % w)
            dy == (n \div w) - (g \div w)
        IN dx * dx + dy * dy <= r * r }

\* C12: the grown selection is exactly the set of in-bounds cells within
\* Euclidean distance growRadius of some flood-selected cell; when the flood
\* fill selects the seed alone it is the disc of that radius around the seed.
C12_GrowthNonCascade ==
  \A seed \in SeedCells(maskEditor) :
    LET w == maskEditor.sourceImageData.w
        h == maskEditor.sourceImageData.h
        flooded == Flooded(maskEditor, seed[1], seed[2])
        grown == Selection(maskEditor, seed[1], seed[2])
    IN /\ grown = WithinDistance(flooded, w, h, maskEditor.growRadius)
       /\ flooded = {seed[1] + seed[2] * w}
            => grown = WithinDistance({seed[1] + seed[2] * w}, w, h, maskEditor.growRadius)

\* C12 witness: a quick select of the isolated dark corner with grow radius
\* 1 has written the corner and its two neighbours and not the far corner.
C12_Witness ==
  /\ outcome = Outcome("quickSelect", "updateMask", NoError)
  /\ maskEditor.sourceImageData.px = ToneImage.px
  /\ maskEditor.tolerance = 0
  /\ maskEditor.growRadius = 1
  /\ Flooded(maskEditor, 0, 0) = {0}
  /\ maskEditor.canvas.px = <<0, 0, 0, 255>>


(***************************************************************************)
(* Claims about polygon rasterization (checked under SpecPolygon).         *)
(***************************************************************************)
\* p lies on the edge a -> b.
OnEdge(a, b, p) ==
  /\ IsLeft(a, b, p) = 0
  /\ (a.x <= p.x /\ p.x <= b.x) \/ (b.x <= p.x /\ p.x <= a.x)
  /\ (a.y <= p.y /\ p.y <= b.y) \/ (b.y <= p.y /\ p.y <= a.y)

\* p lies on the closed path of loop.
OnPath(loop, p, w, h) ==
  \E i \in 1..Len(loop) :
    OnEdge(PathPoint(loop[i], w, h),
           PathPoint(loop[IF i = Len(loop) THEN 1 ELSE i + 1], w, h), p)

\* The quarter-pixel lattice points of the closed square of cell k.
CellPoints(k, w) ==
  {[x |-> 4 * ((k - 1) % w) + dx, y |-> 4 * ((k - 1) \div w) + dy] :
     dx \in 0..4, dy \in 0..4}

\* Every vertex of the loop is a pixel corner of a w x h canvas.
OnPixelCorners(loop, w, h) ==
  \A i \in 1..Len(loop) : (loop[i][1] * w) % 4 = 0 /\ (loop[i][2] * h) % 4 = 0

\* Cell k lies inside the loop: no point of it is outside the closed path.
CellInside(loop, k, w, h) ==
  /\ Len(loop) >= 3
  /\ \A p \in CellPoints(k, w) : Winding(loop, 1, p, w, h) # 0 \/ OnPath(loop, p, w, h)
  /\ \E p \in CellPoints(k, w) : ~OnPath(loop, p, w, h)

\* Cell k lies outside the loop: no point of it is inside the closed path.
CellOutside(loop, k, w, h) ==
  \A p \in CellPoints(k, w) : Winding(loop, 1, p, w, h) = 0 \/ OnPath(loop, p, w, h)

\* C13: whatever the mask held, once an answer whose loops have their
\* vertices on pixel corners is rasterized the mask is 255 at every cell
\* inside some loop and 0 at every cell outside all loops; the square from
\* 0.25 to 0.75 on a 4 x 4 mask gives 255 at cell (2, 2) and 0 at (0, 0).
C13_PolygonFill ==
  outcome.op = "samClick:done" =>
    LET w == maskEditor.canvas.w
        h == maskEditor.canvas.h
        polygons == app.polygons
        after == maskEditor.canvas.px
    IN /\ (\A i \in 1..Len(polygons) : OnPixelCorners(polygons[i], w, h))
            => \A k \in 1..(w * h) :
                 /\ (\E i \in 1..Len(polygons) : CellInside(polygons[i], k, w, h))
                      => after[k] = 255
                 /\ (\A i \in 1..Len(polygons) : CellOutside(polygons[i], k, w, h))
                      => after[k] = 0
       /\ (w = 4 /\ h = 4 /\ polygons = <<SquareLoop>>)
            => after[2 + 2 * 4 + 1] = 255 /\ after[0 + 0 * 4 + 1] = 0

\* C13 witness: the answer with the square has been rasterized by a plain
\* click: the middle of the mask is 255 and the rim, white before, is 0.
C13_Witness ==
  /\ outcome = Outcome("samClick:done", "setFromPolygons", NoError)
  /\ app.polygons = <<SquareLoop>>
  /\ maskEditor.canvas.w = 4 /\ maskEditor.canvas.h = 4
  /\ maskEditor.canvas.px =
       [k \in 1..16 |-> IF k \in {6, 7, 10, 11} THEN 255 ELSE 0]
  /\ renderer.maskTexture = Uploaded(maskEditor.canvas)

\* C14: a polygon answer rasterized additively (the shift-click of the SAM
\* tool) is ORed into the mask: every cell that was 255 is still 255.
C14_AdditiveKeepsSelected ==
  [][(outcome'.op = "samClick:done" /\ outcome'.call = "setFromPolygons:additive")
       => \A k \in 1..Len(maskEditor.canvas.px) :
            maskEditor.canvas.px[k] = 255 => maskEditor'.canvas.px[k] = 255]_vars

\* The loops of polygons are all degenerate: none has three vertices.
Degenerate(polygons) == \A i \in 1..Len(polygons) : Len(polygons[i]) < 3

\* polygons without its degenerate loops.
ValidLoops(polygons) == SelectSeq(polygons, LAMBDA loop : Len(loop) >= 3)

\* C15 as stated: rasterizing an empty list or only degenerate loops does
\* not throw and leaves every Mask Buffer cell unchanged.
C15_MalformedLeavesMask ==
  [][(outcome'.op = "samClick:done" /\ Degenerate(app'.polygons))
       => /\ outcome'.err = NoError
          /\ maskEditor'.canvas.px = maskEditor.canvas.px]_vars

\* C15 amended: rasterizing an empty list or only degenerate loops does not
\* throw and leaves every cell at 0, the cleared background; degenerate
\* loops among valid ones are skipped and the valid ones filled: the mask
\* is what the valid loops alone give.
C15_MalformedSelectsNothing ==
  outcome.op = "samClick:done" =>
    /\ outcome.err = NoError
    /\ Degenerate(app.polygons)
         => maskEditor.canvas.px = UniformPx(Len(maskEditor.canvas.px), 0)
    /\ maskEditor.canvas.px
         = SetFromPolygons(maskEditor, ValidLoops(app.polygons)).e.canvas.px
    /\ \A k \in 1..Len(maskEditor.canvas.px) :
         (\E i \in 1..Len(app.polygons) :
            /\ OnPixelCorners(app.polygons[i], maskEditor.canvas.w, maskEditor.canvas.h)
            /\ CellInside(app.polygons[i], k, maskEditor.canvas.w, maskEditor.canvas.h))
           => maskEditor.canvas.px[k] = 255

\* C15 witness: an answer of a null loop followed by the square has been
\* rasterized: the square is filled, the rest is 0.
C15_Witness ==
  /\ outcome.op = "samClick:done"
  /\ outcome.err = NoError
  /\ app.polygons = <<NullLoop, SquareLoop>>
  /\ maskEditor.canvas.px =
       [k \in 1..16 |-> IF k \in {6, 7, 10, 11} THEN 255 ELSE 0]
  /\ renderer.maskTexture = Uploaded(maskEditor.canvas)

\* C17: a tick of the animation renders and schedules the next tick only
\* while the animate checkbox is on; once setAnimating(false) has returned,
\* a tick (if one still runs) neither renders nor schedules anything, until
\* the checkbox is turned on again, and turning it on starts exactly one
\* chain of ticks.
C17_CooperativeAnimation ==
  /\ [][outcome'.op = "animationFrame" =>
         IF app.animate
           THEN /\ outcome'.call = "render"
                /\ renderer' = [Render(renderer) EXCEPT !.frameId = "pending"]
                /\ app'.raf = app.raf
           ELSE /\ outcome'.call = "none"
                /\ renderer' = renderer
                /\ app'.raf = app.raf - 1]_vars
  /\ [][(outcome'.op = "animateToggle" /\ ~app'.animate) =>
         /\ ~renderer'.animating
         /\ renderer'.frame = renderer.frame]_vars

\* C17 witness: the checkbox has just been turned off while a tick of a
\* running animation was scheduled; the frame on the canvas is a rendered one.
C17_Witness ==
  /\ outcome.op = "animateToggle"
  /\ ~app.animate
  /\ ~renderer.animating
  /\ renderer.frameId = "null"
  /\ FrameIsCurrent

(***************************************************************************)
(* Claims about image loads (checked under SpecLoad).                      *)
(***************************************************************************)
\* C18 as stated: after an image load completes, the render canvas has the
\* image's capped size: both sides at most maxDim, the longer side scaled
\* to maxDim when the native image exceeds it.
C18_CanvasCapped ==
  outcome.op = "imageOnload" =>
    /\ renderer.canvas.w <= MaxDim
    /\ renderer.canvas.h <= MaxDim
    /\ renderer.canvas = CappedSize(app.loadedImage)

\* C19 as stated: after every image load the Mask Buffer has the width and
\* height of the render canvas.
C19_MaskMatchesCanvas ==
  outcome.op = "imageOnload" =>
    /\ maskEditor.canvas.w = renderer.canvas.w
    /\ maskEditor.canvas.h = renderer.canvas.h

(***************************************************************************)
(* Claims about shader generation (checked under SpecGenerate).            *)
(***************************************************************************)
\* The repair requests in flight: the generateShader calls awaiting
\* /api/fix-shader.
RepairRequests(a) == {k \in 1..Len(a.generate) : a.generate[k].stage = "fix"}

\* C20: when the generated shader fails to compile, one repair request is
\* sent, carrying the broken source and the diagnostic, and the current
\* shader record is kept; when the repaired shader compiles it becomes the current shader
\* (its code is the repaired text) and the button is enabled again; when the
\* repair request or the repaired shader fails, no further request is sent,
\* the first compile diagnostic is shown as the error, the current shader
\* record is left as it was and the button is enabled again.
C20_AutoFix ==
  /\ [][outcome'.op = "generateShader:fixing" =>
         /\ outcome'.err # NoError
         /\ Cardinality(RepairRequests(app')) = Cardinality(RepairRequests(app)) + 1
         /\ Len(app'.generate) = Len(app.generate)
         /\ \E k \in RepairRequests(app') :
              /\ app.generate[k].stage = "generate"
              /\ app'.generate[k].shader = app'.reply
              /\ app'.generate[k].error = outcome'.err
              /\ app'.generate[k].error = CreateProgram(glsl, SanitizeShader(app'.reply))
         /\ app'.currentShader = app.currentShader]_vars
  /\ [][(outcome'.op = "generateShader:done" /\ outcome'.call = "fixShader") =>
         /\ Cardinality(RepairRequests(app')) = Cardinality(RepairRequests(app)) - 1
         /\ Len(app'.generate) = Len(app.generate) - 1
         /\ app'.reply \in Sources
         /\ app'.currentShader = [code |-> app'.reply]
         /\ renderer'.program = SanitizeShader(app'.reply)
         /\ ~app'.generateBtn.disabled]_vars
  /\ [][(outcome'.op = "generateShader:failed" /\ outcome'.call = "fixShader") =>
         /\ Cardinality(RepairRequests(app')) = Cardinality(RepairRequests(app)) - 1
         /\ Len(app'.generate) = Len(app.generate) - 1
         /\ \E k \in RepairRequests(app) :
              /\ app'.generateStatus = Status("error", app.generate[k].error)
              /\ app.generate[k].error.kind \in {"compile", "link"}
         /\ app'.currentShader = app.currentShader
         /\ ~app'.generateBtn.disabled]_vars
  /\ [][outcome'.op \in {"generateShader:done", "generateShader:failed"} =>
         ~app'.generateBtn.disabled]_vars

\* C20 witness: the repair request failed after a library shader had been
\* applied; the first compile diagnostic is shown, the library shader is
\* still the current shader and the button is enabled.
C20_Witness ==
  /\ outcome.op = "generateShader:failed"
  /\ outcome.call = "fixShader"
  /\ app.reply = HttpFailure
  /\ app.generateStatus.err.kind = "compile"
  /\ app.currentShader # NoShader
  /\ ~app.generateBtn.disabled

\* C23: in every reachable editor state, for every pointer position and
\* either mode, _quickSelect changes nothing but the mask cells: a selected
\* cell becomes 255 (additive) or 0 (subtractive) and an unselected cell
\* keeps its value; without a cached source image, or with the rounded seed
\* outside the image, the editor is left as it was.  A quick select that
\* returned early uploads nothing; one that ran uploads the mask it wrote.
C23_WritesOnlySelected ==
  /\ [](\A pos \in SeedPointers, addMode \in BOOLEAN :
          LET after == QuickSelect(maskEditor, pos, addMode)
              selected == Selection(maskEditor, RoundQuarter(pos.x), RoundQuarter(pos.y))
          IN /\ QuickSelect([maskEditor EXCEPT !.sourceImageData = NoRaster], pos, addMode)
                  = [maskEditor EXCEPT !.sourceImageData = NoRaster]
             /\ IF QuickSelectRuns(maskEditor, pos)
                  THEN /\ after = [maskEditor EXCEPT !.canvas.px = after.canvas.px]
                       /\ Len(after.canvas.px) = Len(maskEditor.canvas.px)
                       /\ \A k \in 1..Len(maskEditor.canvas.px) :
                            after.canvas.px[k]
                              = IF (k - 1) \in selected
                                  THEN (IF addMode THEN 255 ELSE 0)
                                  ELSE maskEditor.canvas.px[k]
                  ELSE after = maskEditor)
  /\ [][outcome'.op = "quickSelect" =>
         IF outcome'.call = "none"
           THEN maskEditor' = maskEditor /\ renderer' = renderer
           ELSE /\ renderer'.maskTexture = Uploaded(maskEditor'.canvas)
                /\ \E pos \in SeedPointers, addMode \in BOOLEAN :
                     /\ QuickSelectRuns(maskEditor, pos)
                     /\ maskEditor' = QuickSelect(maskEditor, pos, addMode)]_vars

\* C23 witness: a subtractive quick select with tolerance 0 and no grow from
\* one dim cell of a full mask has cleared that cell and kept the others.
C23_Witness ==
  /\ outcome = Outcome("quickSelect", "updateMask", NoError)
  /\ maskEditor.sourceImageData.px = ToneImage.px
  /\ maskEditor.tolerance = 0
  /\ maskEditor.growRadius = 0
  /\ maskEditor.canvas.px = <<255, 0, 255, 255>>

Adjacent(n, m, w) ==
  LET dx == (n % w) - (m % w)
      dy == (n \div w) - (m \div w)
  IN dx * dx + dy * dy = 1

\* The cells of src whose squared RGB distance to the seed colour is <= tol.
Accepted(src, seed, tol) ==
  {n \in 0..(src.w * src.h - 1) : DistSq(src.px[n + 1], src.px[seed + 1]) <= tol}

\* The 4-connected component of the seed among the accepted cells: the
\* least set that holds the seed and every accepted cell sharing an edge
\* with one of its cells.
RECURSIVE Closure(_, _, _)
Closure(set, accepted, w) ==
  LET more == set \cup {n \in accepted : \E m \in set : Adjacent(n, m, w)}
  IN IF more = set THEN set ELSE Closure(more, accepted, w)

Component(src, seed, tol) == Closure({seed}, Accepted(src, seed, tol), src.w)

\* C21: whenever the loop of the flood fill has emptied its work list, in
\* whatever order the pending pixels were taken, the selected set is the
\* 4-connected component of the seed among the pixels within 3 * tolerance^2
\* of the seed colour, which is also what the stack order of the code selects.
C21_OrderIndependent ==
  (app.flood.running /\ Len(app.flood.st.queue) = 0) =>
    /\ app.flood.st.selected = Component(maskEditor.sourceImageData, FloodSeed, FloodTol)
    /\ app.flood.st.selected
         = Flooded(maskEditor, RoundQuarter(app.flood.pos.x), RoundQuarter(app.flood.pos.y))

\* C21 witness: a flood fill from the dark corner with tolerance 32 that did
\* not always take the last entry of the work list has ended, having
\* selected the corner and the dim cell below it and not the dark cells
\* behind the bright column.
C21_Witness ==
  /\ app.flood.running
  /\ Len(app.flood.st.queue) = 0
  /\ ~app.flood.popped
  /\ maskEditor.tolerance = 32
  /\ FloodSeed = 0
  /\ app.flood.st.selected = {0, 3}

\* C22: while the flood fill runs, a pixel is pushed at most once (the
\* pushes are the visited pixels, the work list holds no pixel twice), the
\* loop has run at most width x height rounds, and it ends with the work
\* list empty.
C22_FloodTerminates ==
  /\ [](app.flood.running =>
          LET st == app.flood.st
              cells == maskEditor.sourceImageData.w * maskEditor.sourceImageData.h
          IN /\ app.flood.pushes = Cardinality(st.visited)
             /\ Cardinality({st.queue[j] : j \in 1..Len(st.queue)}) = Len(st.queue)
             /\ app.flood.iterations + Len(st.queue) = app.flood.pushes
             /\ app.flood.pushes <= cells
             /\ app.flood.iterations <= cells)
  /\ [](app.flood.running => <>(Len(app.flood.st.queue) = 0))

\* C22 witness: a flood fill that accepts every pixel has ended after
\* width x height rounds.
C22_Witness ==
  /\ app.flood.running
  /\ Len(app.flood.st.queue) = 0
  /\ maskEditor.tolerance = 150
  /\ app.flood.iterations = maskEditor.sourceImageData.w * maskEditor.sourceImageData.h
  /\ app.flood.st.selected = 0..(app.flood.iterations - 1)

(***************************************************************************)
(* Claims about the renderer's GL objects (checked under Spec).            *)
(***************************************************************************)
\* C25 as stated: after every setShader, renderPassthrough and
\* renderMaskShader call, successful or failing, at most one program
\* object is live and no shader object the call created is left undeleted.
C25_ObjectHygiene ==
  /\ renderer.gl.programs <= 1
  /\ renderer.gl.undeleted = 0

(***************************************************************************)
(* Claims about the tick chain (checked under SpecAnimation).              *)
(***************************************************************************)
\* C26 as stated: whatever setAnimating calls and frame callbacks have
\* happened, at most one animation-frame callback is pending.
C26_SingleTickChain == app.raf <= 1

(***************************************************************************)
(* Claims about overlapping requests (checked under SpecGenerate).         *)
(***************************************************************************)
\* C27 as stated: at most one shader generation, one mask generation and
\* one click segmentation is awaiting its answer at any time, and an answer
\* that is applied belongs to the oldest request still waiting, so that no
\* earlier request is applied after a later one.
C27_SingleFlight ==
  /\ [](/\ Len(app.generate) <= 1
        /\ Len(app.aiMask) <= 1
        /\ Len(app.samClicks) <= 1)
  /\ [][outcome'.op \in {"generateShader:done", "generateShader:failed"}
         => app'.generate = Tail(app.generate)]_vars

(***************************************************************************)
(* Claims about the renderer's shader record (checked under Spec).         *)
(***************************************************************************)
\* C28 as stated: in every reachable state of the renderer,
\* currentShaderCode is non-null only if a program is bound, and that
\* program was compiled from currentShaderCode.
C28_CodeDenotesProgram ==
  renderer.currentShaderCode # NullText =>
    /\ renderer.program # NullText
    /\ renderer.program = renderer.currentShaderCode

(***************************************************************************)
(* Claims about strokes (checked under SpecStroke).                        *)
(***************************************************************************)
\* C29: a pointer event on an inactive editor changes neither the editor
\* nor the renderer; a pointer-move paints only while the painting flag is
\* set, which is only after a pointer-down on the canvas with no pointer-up
\* since; the first stamp of a stroke is the one at its pointer-down, and a
\* pointer-move interpolates from the latest position of its own stroke.
C29_StrokeStateMachine ==
  /\ [](maskEditor.painting =>
          /\ app.pointer.down
          /\ maskEditor.lastPos # NoPos
          /\ maskEditor.lastPos = app.pointer.from)
  /\ [][(~maskEditor.active /\ outcome'.op \in {"startPaint", "paint", "stopPaint"}) =>
         /\ maskEditor'.canvas = maskEditor.canvas
         /\ renderer' = renderer
         /\ stamps' = stamps]_vars
  /\ [][(outcome'.op = "paint" /\ outcome'.call = "updateMask") =>
         /\ maskEditor.painting
         /\ app.pointer.down
         /\ \E pos \in MaskPointers :
              maskEditor' = PaintTo([maskEditor EXCEPT !.lastPos = app.pointer.from], pos)]_vars
  /\ [][(outcome'.op = "paint" /\ outcome'.call = "none") =>
         /\ ~maskEditor.active \/ ~maskEditor.painting
         /\ maskEditor' = maskEditor
         /\ renderer' = renderer]_vars
  /\ [][(outcome'.op = "startPaint" /\ outcome'.call = "updateMask") =>
         /\ stamps' = stamps + 1
         /\ \E pos \in MaskPointers :
              maskEditor' = [Paint(maskEditor, pos, 1) EXCEPT !.painting = TRUE,
                                                              !.lastPos = pos]]_vars

\* C29 witness: a pointer-move has painted the second stamp of the stroke
\* its pointer-down began.
C29_Witness ==
  /\ outcome = Outcome("paint", "updateMask", NoError)
  /\ app.pointer.down
  /\ maskEditor.painting
  /\ app.pointer.from = maskEditor.lastPos
  /\ stamps = 2

(***************************************************************************)
(* Claims about the shader library (checked under SpecLibrary).            *)
(***************************************************************************)
\* The ids of the records of a library.
LibraryIds(shaders) == {shaders[j].id : j \in 1..Len(shaders)}

\* C30: every request is handled in one step on the stored library.  Ids
\* stay unique.  A request answered 400 or 404 leaves the library as it
\* was, and those are the requests without a name (or code) or with an
\* unknown id.  An accepted save appends one record with a new id and
\* keeps the others; an accepted rename changes the name of the addressed
\* record alone; an accepted delete removes that record alone; no record
\* leaves the library but by a delete that addresses it.
C30_LibraryAtomic ==
  /\ [](Cardinality(LibraryIds(app.shadersFile)) = Len(app.shadersFile))
  /\ [][LET old == app.shadersFile
            new == app'.shadersFile
            req == app'.request
        IN outcome'.op \in {"getShaders", "postShaders", "putShaders", "deleteShaders"} =>
             /\ req.status \in {400, 404} => new = old
             /\ req.method = "get" => new = old
             /\ req.method = "post" =>
                  /\ req.status = 400 <=> (req.name = "" \/ req.code = NullText)
                  /\ req.status = 200 =>
                       /\ req.id \notin LibraryIds(old)
                       /\ new = Append(old, [id |-> req.id, name |-> req.name,
                                              code |-> req.code])
             /\ req.method = "put" =>
                  /\ req.status = 400 <=> req.name = ""
                  /\ req.status = 404 <=> (req.name # "" /\ req.id \notin LibraryIds(old))
                  /\ req.status = 200 =>
                       /\ Len(new) = Len(old)
                       /\ \A j \in 1..Len(old) :
                            new[j] = IF old[j].id = req.id
                                       THEN [old[j] EXCEPT !.name = req.name]
                                       ELSE old[j]
             /\ req.method = "delete" =>
                  /\ req.status = 404 <=> req.id \notin LibraryIds(old)
                  /\ req.status = 200 =>
                       /\ Len(new) = Len(old) - 1
                       /\ LibraryIds(new) = LibraryIds(old) \ {req.id}
                       /\ \A j \in 1..Len(new) : \E i \in 1..Len(old) : new[j] = old[i]
             /\ \A i \in 1..Len(old) :
                  \/ \E j \in 1..Len(new) :
                       new[j].id = old[i].id /\ new[j].code = old[i].code
                  \/ req.method = "delete" /\ req.status = 200 /\ req.id = old[i].id]_vars

\* C30 witness: of two saved shaders the second has been deleted and the
\* first is still stored.
C30_Witness ==
  /\ app.request.method = "delete"
  /\ app.request.status = 200
  /\ app.request.id = 2
  /\ Len(app.shadersFile) = 1
  /\ app.shadersFile[1].id = 1

====
